---- MODULE Spec2Model ----
(***************************************************************************)
(* State-machine model of the SIP signalling core: the WebSocket Transport *)
(* FSM, the UserAgent lifecycle (start/stop/reconnection) and the          *)
(* Publisher.  Handlers are operators on records, translated from the      *)
(* source; every action applies one whole handler.                         *)
(***************************************************************************)
EXTENDS Integers, Sequences, FiniteSets, TLC

VARIABLES transport, ua, pub, publishers, digest, transaction, inbound

vars == <<transport, ua, pub, publishers, digest, transaction, inbound>>

(***************************************************************************)
(* Bounds                                                                  *)
(***************************************************************************)
MaxSockets == 3
MaxHandles == 3
MaxObjects == 2
MaxStops == 2
MaxAttempts == 2
MaxExpires == 2
MaxEtag == 2
MaxRequests == 3
MaxPublishers == 2
MaxNc == 3
MaxSends == 3
MaxInvitations == 2
MaxDeferred == 1

(***************************************************************************)
(* TransportState                                                          *)
(***************************************************************************)
TransportState == {"Disconnected", "Connecting", "Connected", "Disconnecting"}

\* What a state-change observer (ev) or the onConnect/onDisconnect callback
\* (cb) does synchronously while it runs.
ReentryOps == {"none", "connect", "disconnect"}
Observers == [ev : ReentryOps, cb : ReentryOps]
NoObservers == [ev |-> "none", cb |-> "none"]

\* One entry of the record of what the running handler did.
Ev(e, a, n, b) == [e |-> e, a |-> a, n |-> n, b |-> b]

\* Result of an API call: a pending handle, Promise.resolve(),
\* Promise.reject(err) or a synchronous throw.
Ret(kind, h, err) == [kind |-> kind, h |-> h, err |-> err]
NoRet == Ret("none", 0, "none")

Log(t, e) == [t EXCEPT !.trace = Append(@, e)]

\* new Promise(...): a fresh pending handle.
NewPromise(t, kind) ==
  [t EXCEPT !.handles = Append(@, [kind |-> kind, status |-> "pending",
                                   settles |-> 0])]

\* resolve() / reject() of a handle; only the first call changes the status.
Settle(t, h, status) ==
  Log([t EXCEPT !.handles[h] =
         [kind    |-> @.kind,
          status  |-> IF @.status = "pending" THEN status ELSE @.status,
          settles |-> @.settles + 1]],
      Ev("settle", status, h, t.transitioningState))

\* ws.close(1000) on socket s.
WsClose(t, s) ==
  Log([t EXCEPT !.sockets[s] =
         IF @ \in {"connecting", "open"} THEN "closing" ELSE @],
      Ev("ws.close", "", s, FALSE))

\* The part of the transport a caller can observe being changed.
Core(t) == [state |-> t.state, transitioningState |-> t.transitioningState,
            ws |-> t.ws, connectPromise |-> t.connectPromise,
            disconnectPromise |-> t.disconnectPromise,
            connectTimeout |-> t.connectTimeout, sockets |-> t.sockets,
            handles |-> t.handles, failTask |-> t.failTask,
            notified |-> t.notified]

\* Transport.defaultOptions, as far as the model reads them.
defaultOptions == [keepAliveInterval |-> 0]

\* Mutant: the constructor leaves the transport in Connecting.
TransportInit_StartsConnecting ==
  [state |-> "Connecting", transitioningState |-> FALSE,
   ws |-> 0, connectPromise |-> 0, disconnectPromise |-> 0,
   connectTimeout |-> 0, sockets |-> <<>>, handles |-> <<>>,
   failTask |-> 0, thrown |-> "none", notified |-> "none",
   configuration |-> defaultOptions,
   keepAliveInterval |-> 0, keepAliveDebounceTimeout |-> 0,
   intervals |-> {}, debounces |-> {},
   op |-> "new", ret |-> NoRet, trace |-> <<>>]

\* Transport constructor.
TransportInit ==
  [state |-> "Disconnected", transitioningState |-> FALSE,
   ws |-> 0, connectPromise |-> 0, disconnectPromise |-> 0,
   connectTimeout |-> 0, sockets |-> <<>>, handles |-> <<>>,
   failTask |-> 0, thrown |-> "none", notified |-> "none",
   configuration |-> defaultOptions,
   keepAliveInterval |-> 0, keepAliveDebounceTimeout |-> 0,
   intervals |-> {}, debounces |-> {},
   op |-> "new", ret |-> NoRet, trace |-> <<>>]

\* The validation switch of transitionState.
ValidTransition(oldState, newState) ==
  CASE oldState = "Connecting" ->
         newState \in {"Connected", "Disconnecting", "Disconnected"}
    [] oldState = "Connected" ->
         newState \in {"Disconnecting", "Disconnected"}
    [] oldState = "Disconnecting" ->
         newState \in {"Connecting", "Disconnected"}
    [] oldState = "Disconnected" ->
         newState = "Connecting"

\* Mutant: transitionState does not look at the in-transition flag.
LoopCheck_Never(t) == FALSE

\* if (this.transitioningState) throw this.transitionLoopDetectedError(newState)
LoopCheck(t) == t.transitioningState

\* Mutant: the in-transition flag is not raised.
MarkTransitioning_Skipped(t) == t

\* this.transitioningState = true
MarkTransitioning(t) == [t EXCEPT !.transitioningState = TRUE]

\* Mutant: the connect promise is resolved whatever the new state is.
CompleteConnect_AlwaysResolves(t, newState, connectResolve) ==
  IF connectResolve = 0 THEN [t EXCEPT !.thrown = "Error"]
  ELSE Settle(t, connectResolve, "resolved")

\* "Complete connect promise" at the end of transitionState.
CompleteConnect(t, newState, connectResolve) ==
  IF connectResolve = 0 THEN [t EXCEPT !.thrown = "Error"]
  ELSE Settle(t, connectResolve,
              IF newState = "Connected" THEN "resolved" ELSE "rejected")

\* "Complete disconnect promise" at the end of transitionState.
CompleteDisconnect(t, newState, disconnectResolve) ==
  IF disconnectResolve = 0 THEN [t EXCEPT !.thrown = "Error"]
  ELSE Settle(t, disconnectResolve,
              IF newState = "Disconnected" THEN "resolved" ELSE "rejected")

\* transitionState, "Update state" up to the emit: the state is stored, the
\* promises of the state left are forgotten, the connect timeout is cleared
\* and the state-change observers are told.
UpdateState(t, newState) ==
  Log([MarkTransitioning(t) EXCEPT
         !.state = newState,
         !.connectPromise = IF t.state = "Connecting" THEN 0 ELSE @,
         !.disconnectPromise = IF t.state = "Disconnecting" THEN 0 ELSE @,
         !.connectTimeout = 0,
         !.thrown = "none",
         !.notified = newState],
      Ev("stateChange", newState, 0, MarkTransitioning(t).transitioningState))

\* "if (oldState === Connecting) complete the connect promise"
IfWasConnecting(t, oldState, newState, connectResolve) ==
  IF oldState = "Connecting"
  THEN CompleteConnect(t, newState, connectResolve)
  ELSE t

\* "if (oldState === Disconnecting) complete the disconnect promise"; not
\* reached when completing the connect promise threw.
IfWasDisconnecting(t, oldState, newState, disconnectResolve) ==
  IF t.thrown # "none" THEN t
  ELSE IF oldState = "Disconnecting"
  THEN CompleteDisconnect(t, newState, disconnectResolve)
  ELSE t

\* this.transitioningState = false, the last statement of transitionState.
EndTransition(t) ==
  IF t.thrown # "none" THEN t
  ELSE [t EXCEPT !.transitioningState = FALSE]

\* transitionState, from "Complete connect promise" to the end.
CompletePromises(t, oldState, newState, connectResolve, disconnectResolve) ==
  EndTransition(
    IfWasDisconnecting(
      IfWasConnecting(t, oldState, newState, connectResolve),
      oldState, newState, disconnectResolve))

\* Promise.reject(this.transitionLoopDetectedError(...))
LoopDetected(t) == [t EXCEPT !.ret = Ret("rejected", 0, "STE")]

\* What _connect/_disconnect return when transitionState threw.
Caught(t) ==
  IF t.thrown = "STE"
  THEN [t EXCEPT !.ret = Ret("rejected", 0, "STE"), !.thrown = "none"]
  ELSE [t EXCEPT !.ret = Ret("threw", 0, "Error")]

Throw(t) == [t EXCEPT !.ret = Ret("threw", 0, "Error"), !.thrown = "Error"]

\* this.connectPromise = new Promise(...) with the connect timeout armed
\* for socket s.
WithConnectPromise(t, s) ==
  [NewPromise(t, "connect") EXCEPT
     !.connectPromise = Len(t.handles) + 1,
     !.connectTimeout = s,
     !.ret = Ret("handle", Len(t.handles) + 1, "none")]

\* The catch branch of _connect: this._ws = undefined and the promise that
\* will run transitionState(Disconnected, error) and throw.
WithFailTask(t) ==
  [NewPromise(t, "connect") EXCEPT
     !.ws = 0,
     !.failTask = Len(t.handles) + 1,
     !.ret = Ret("handle", Len(t.handles) + 1, "none")]

\* _connect after its call of transitionState(Connecting); t is what that
\* call left.  A throw is turned into the returned value; otherwise the
\* socket is constructed and the connect promise and timeout are set up.
OpenSocket(t, wsOk) ==
  IF t.thrown # "none" THEN Caught(t)
  ELSE IF wsOk
  THEN WithConnectPromise(
         Log([t EXCEPT !.sockets = Append(@, "connecting"),
                       !.ws = Len(t.sockets) + 1],
             Ev("new WebSocket", "", Len(t.sockets) + 1, FALSE)),
         Len(t.sockets) + 1)
  ELSE WithFailTask(t)

\* _disconnect after its call of transitionState(Disconnecting): the
\* disconnect promise is set up and the socket is asked to close.
CloseSocket(t) ==
  IF t.thrown # "none" THEN Caught(t)
  ELSE IF t.ws = 0 THEN Throw(t)
  ELSE WsClose([NewPromise(t, "disconnect") EXCEPT
                  !.disconnectPromise = Len(t.handles) + 1,
                  !.ret = Ret("handle", Len(t.handles) + 1, "none")],
               t.ws)

\* A callback that is only made under a condition.
LogIf(cond, t, e) == IF cond THEN Log(t, e) ELSE t

\* A timer id that is not pending.
Fresh(pending) == CHOOSE n \in 1..(Cardinality(pending) + 1) : n \notin pending

\* Transport.prototype.clearKeepAliveTimeout
clearKeepAliveTimeout(t) ==
  [t EXCEPT !.debounces = @ \ {t.keepAliveDebounceTimeout},
            !.keepAliveDebounceTimeout = 0]

\* Transport.prototype.startSendingKeepAlives
startSendingKeepAlives(t) ==
  IF t.configuration.keepAliveInterval # 0 /\ t.keepAliveInterval = 0
  THEN [t EXCEPT !.keepAliveInterval = Fresh(t.intervals),
                 !.intervals = @ \cup {Fresh(t.intervals)}]
  ELSE t

\* Transport.prototype.stopSendingKeepAlives
stopSendingKeepAlives(t) ==
  [t EXCEPT !.intervals = @ \ {t.keepAliveInterval},
            !.debounces = @ \ {t.keepAliveDebounceTimeout},
            !.keepAliveInterval = 0,
            !.keepAliveDebounceTimeout = 0]

\* transitionState, after the emit: startSendingKeepAlives() on a transition
\* to Connected, stopSendingKeepAlives() on a transition from Connected.
KeepAlives(t, oldState, newState) ==
  IF newState = "Connected" THEN startSendingKeepAlives(t)
  ELSE IF oldState = "Connected" THEN stopSendingKeepAlives(t)
  ELSE t

\* transitionState as run for a call made by an observer or callback: the
\* observers are told again but make no further call.
transitionStateNested(t, newState, error) ==
  IF LoopCheck(t) THEN [t EXCEPT !.thrown = "STE"]
  ELSE IF ~ValidTransition(t.state, newState)
  THEN [MarkTransitioning(t) EXCEPT !.thrown = "Error"]
  ELSE CompletePromises(
         LogIf(t.state = "Connected",
               LogIf(newState = "Connected",
                     KeepAlives(UpdateState(t, newState), t.state, newState),
                     Ev("onConnect", "", 0, FALSE)),
               Ev("onDisconnect", "", 0, error)),
         t.state, newState, t.connectPromise, t.disconnectPromise)

\* _connect as called by an observer or callback.
_connectNested(t, wsOk) ==
  CASE t.state = "Connecting" ->
         IF t.transitioningState THEN LoopDetected(t)
         ELSE IF t.connectPromise = 0 THEN Throw(t)
         ELSE [t EXCEPT !.ret = Ret("handle", t.connectPromise, "none")]
    [] t.state = "Connected" ->
         IF t.transitioningState THEN LoopDetected(t)
         ELSE IF t.connectPromise # 0 THEN Throw(t)
         ELSE [t EXCEPT !.ret = Ret("resolved", 0, "none")]
    [] t.state \in {"Disconnecting", "Disconnected"} ->
         IF t.connectPromise # 0 THEN Throw(t)
         ELSE OpenSocket(transitionStateNested(t, "Connecting", FALSE), wsOk)

\* _disconnect as called by an observer or callback.
_disconnectNested(t) ==
  CASE t.state \in {"Connecting", "Connected"} ->
         IF t.disconnectPromise # 0 THEN Throw(t)
         ELSE CloseSocket(transitionStateNested(t, "Disconnecting", FALSE))
    [] t.state = "Disconnecting" ->
         IF t.transitioningState THEN LoopDetected(t)
         ELSE IF t.disconnectPromise = 0 THEN Throw(t)
         ELSE [t EXCEPT !.ret = Ret("handle", t.disconnectPromise, "none")]
    [] t.state = "Disconnected" ->
         IF t.transitioningState THEN LoopDetected(t)
         ELSE IF t.disconnectPromise # 0 THEN Throw(t)
         ELSE [t EXCEPT !.ret = Ret("resolved", 0, "none")]

\* The entry logged for a call made by an observer or callback: what the
\* call returned and whether it left the transport as it was; r is the
\* transport after the call.
Reentered(t, r) ==
  Log([r EXCEPT !.ret = t.ret, !.thrown = "none"],
      Ev("reenter", r.ret.kind \o ":" \o r.ret.err, 0, Core(r) = Core(t)))

\* A synchronous call made by an observer or callback while the transition
\* is running.
Reenter(t, what) ==
  IF what = "none" THEN t
  ELSE Reentered(t, IF what = "connect" THEN _connectNested(t, TRUE)
                    ELSE _disconnectNested(t))

\* A callback made under a condition, and the call the callback makes.
CallbackIf(cond, t, e, what) == IF cond THEN Reenter(Log(t, e), what) ELSE t

\* Transport.prototype.transitionState(newState, error)
transitionState(t, newState, error, obs) ==
  IF LoopCheck(t) THEN [t EXCEPT !.thrown = "STE"]
  ELSE IF ~ValidTransition(t.state, newState)
  THEN [MarkTransitioning(t) EXCEPT !.thrown = "Error"]
  ELSE CompletePromises(
         CallbackIf(t.state = "Connected",
                    CallbackIf(newState = "Connected",
                               KeepAlives(
                                 Reenter(UpdateState(t, newState), obs.ev),
                                 t.state, newState),
                               Ev("onConnect", "", 0, FALSE), obs.cb),
                    Ev("onDisconnect", "", 0, error), obs.cb),
         t.state, newState, t.connectPromise, t.disconnectPromise)

\* Transport.prototype._connect; wsOk tells whether new WebSocket() succeeds.
_connect(t, wsOk, obs) ==
  CASE t.state = "Connecting" ->
         IF t.transitioningState THEN LoopDetected(t)
         ELSE IF t.connectPromise = 0 THEN Throw(t)
         ELSE [t EXCEPT !.ret = Ret("handle", t.connectPromise, "none")]
    [] t.state = "Connected" ->
         IF t.transitioningState THEN LoopDetected(t)
         ELSE IF t.connectPromise # 0 THEN Throw(t)
         ELSE [t EXCEPT !.ret = Ret("resolved", 0, "none")]
    [] t.state \in {"Disconnecting", "Disconnected"} ->
         IF t.connectPromise # 0 THEN Throw(t)
         ELSE OpenSocket(transitionState(t, "Connecting", FALSE, obs), wsOk)

\* Transport.prototype._disconnect
_disconnect(t, obs) ==
  CASE t.state \in {"Connecting", "Connected"} ->
         IF t.disconnectPromise # 0 THEN Throw(t)
         ELSE CloseSocket(transitionState(t, "Disconnecting", FALSE, obs))
    [] t.state = "Disconnecting" ->
         IF t.transitioningState THEN LoopDetected(t)
         ELSE IF t.disconnectPromise = 0 THEN Throw(t)
         ELSE [t EXCEPT !.ret = Ret("handle", t.disconnectPromise, "none")]
    [] t.state = "Disconnected" ->
         IF t.transitioningState THEN LoopDetected(t)
         ELSE IF t.disconnectPromise # 0 THEN Throw(t)
         ELSE [t EXCEPT !.ret = Ret("resolved", 0, "none")]

\* Mutant: _send does not look at the state.
_send_AnyState(t, message, sendOk) ==
  IF t.ws = 0 THEN Throw(t)
  ELSE [Log(t, Ev("ws.send", message, t.ws, FALSE)) EXCEPT
          !.ret = IF sendOk THEN Ret("resolved", 0, "none")
                  ELSE Ret("rejected", 0, "Error")]

\* Transport.prototype._send; sendOk tells whether ws.send() returns normally.
_send(t, message, sendOk) ==
  IF t.state # "Connected" THEN [t EXCEPT !.ret = Ret("rejected", 0, "Error")]
  ELSE IF t.ws = 0 THEN Throw(t)
  ELSE [Log(t, Ev("ws.send", message, t.ws, FALSE)) EXCEPT
          !.ret = IF sendOk THEN Ret("resolved", 0, "none")
                  ELSE Ret("rejected", 0, "Error")]

\* Mutant: onWebSocketClose does not compare ws with this._ws.
onWebSocketClose_AnySocket(t, s, obs) ==
  transitionState([t EXCEPT !.ws = 0], "Disconnected",
                  t.disconnectPromise = 0, obs)

\* Transport.prototype.onWebSocketClose(ev, ws)
onWebSocketClose(t, s, obs) ==
  IF s # t.ws THEN t
  ELSE transitionState([t EXCEPT !.ws = 0], "Disconnected",
                       t.disconnectPromise = 0, obs)

\* Transport.prototype.onWebSocketError(ev, ws)
onWebSocketError(t, s) ==
  IF s # t.ws THEN t
  ELSE Log(t, Ev("logger.error", "", s, FALSE))

\* Transport.prototype.onWebSocketOpen(ev, ws)
onWebSocketOpen(t, s, obs) ==
  IF s # t.ws THEN t
  ELSE IF t.state = "Connecting"
  THEN transitionState(t, "Connected", FALSE, obs)
  ELSE t

\* /^(\r\n)+$/.test(data): one or more CRLF and nothing else; a frame is a
\* sequence of pieces, each a CRLF or other text.
OnlyCRLF(data) ==
  Len(data) >= 1 /\ \A i \in 1..Len(data) : data[i] = "\r\n"

\* Transport.prototype.onWebSocketMessage(ev, ws)
onWebSocketMessage(t, s, data) ==
  IF s # t.ws THEN t
  ELSE IF OnlyCRLF(data) THEN clearKeepAliveTimeout(t)
  ELSE IF data = <<>> THEN t
  ELSE IF t.state # "Connected" THEN t
  ELSE Log(t, Ev("onMessage", "", s, FALSE))

\* Mutant: sendKeepAlive does not look at the debounce timeout.
sendKeepAlive_NoDebounce(t, sendOk) ==
  _send([t EXCEPT !.keepAliveDebounceTimeout = Fresh(t.debounces),
                  !.debounces = @ \cup {Fresh(t.debounces)}],
        "\r\n\r\n", sendOk)

\* Transport.prototype.sendKeepAlive
sendKeepAlive(t, sendOk) ==
  IF t.keepAliveDebounceTimeout # 0
  THEN [t EXCEPT !.ret = Ret("resolved", 0, "none")]
  ELSE _send([t EXCEPT !.keepAliveDebounceTimeout = Fresh(t.debounces),
                       !.debounces = @ \cup {Fresh(t.debounces)}],
             "\r\n\r\n", sendOk)

\* The setInterval callback of startSendingKeepAlives.
keepAliveIntervalFired(t, sendOk) ==
  startSendingKeepAlives(sendKeepAlive(t, sendOk))

\* The setTimeout callback of sendKeepAlive; the timer that fired is no
\* longer pending.
keepAliveDebounceFired(t, timer) ==
  clearKeepAliveTimeout([t EXCEPT !.debounces = @ \ {timer}])

\* The connect timeout callback set in _connect: ws.close(1000) on the
\* socket of that attempt.
connectTimeoutFired(t) ==
  WsClose([t EXCEPT !.connectTimeout = 0], t.connectTimeout)

\* The continuation scheduled by _connect when new WebSocket() threw:
\* transitionState(Disconnected, error); throw error.
constructionFailedTask(t, obs) ==
  LET t1 == transitionState(t, "Disconnected", TRUE, obs)
  IN Settle([t1 EXCEPT !.failTask = 0, !.thrown = "none"], t.failTask, "rejected")

\* Start of a handler: nothing logged, nothing returned yet.
Begin(t, op) == [t EXCEPT !.op = op, !.ret = NoRet, !.trace = <<>>, !.thrown = "none"]

\* The socket's side of an event: "open" and "close" change its readyState.
SocketEvent(t, s, status) == [t EXCEPT !.sockets[s] = status]

(***************************************************************************)
(* Transport actions                                                       *)
(***************************************************************************)
\* Room for the socket and the handle a call may create.
Room(t) == Len(t.sockets) < MaxSockets /\ Len(t.handles) < MaxHandles

\* No promise continuation is queued: a new task (socket event, timer) may run.
TaskBoundary(t) == t.failTask = 0

Connect ==
  /\ Room(transport)
  /\ \E wsOk \in BOOLEAN, obs \in Observers :
        transport' = _connect(Begin(transport, "connect"), wsOk, obs)
  /\ UNCHANGED <<ua, pub, publishers, digest, transaction, inbound>>

Disconnect ==
  /\ Room(transport)
  /\ \E obs \in Observers :
        transport' = _disconnect(Begin(transport, "disconnect"), obs)
  /\ UNCHANGED <<ua, pub, publishers, digest, transaction, inbound>>

Send ==
  /\ \E sendOk \in BOOLEAN :
        transport' = _send(Begin(transport, "send"), "SIP", sendOk)
  /\ UNCHANGED <<ua, pub, publishers, digest, transaction, inbound>>

SocketOpen ==
  /\ TaskBoundary(transport)
  /\ \E s \in 1..Len(transport.sockets), obs \in Observers :
        /\ transport.sockets[s] = "connecting"
        /\ transport' = onWebSocketOpen(
                          SocketEvent(Begin(transport, "open"), s, "open"), s, obs)
  /\ UNCHANGED <<ua, pub, publishers, digest, transaction, inbound>>

SocketClose ==
  /\ TaskBoundary(transport)
  /\ \E s \in 1..Len(transport.sockets), obs \in Observers :
        /\ transport.sockets[s] \in {"connecting", "open", "closing"}
        /\ transport' = onWebSocketClose(
                          SocketEvent(Begin(transport, "close"), s, "closed"), s, obs)
  /\ UNCHANGED <<ua, pub, publishers, digest, transaction, inbound>>

ConnectTimeout ==
  /\ TaskBoundary(transport)
  /\ transport.connectTimeout # 0
  /\ transport' = connectTimeoutFired(Begin(transport, "timeout"))
  /\ UNCHANGED <<ua, pub, publishers, digest, transaction, inbound>>

ConstructionFailed ==
  /\ transport.failTask # 0
  /\ \E obs \in Observers :
        transport' = constructionFailedTask(Begin(transport, "failtask"), obs)
  /\ UNCHANGED <<ua, pub, publishers, digest, transaction, inbound>>

\* The frames a socket may deliver: up to two pieces.
Frames ==
  {<<>>} \cup {<<a>> : a \in {"\r\n", "SIP"}}
         \cup {<<a, b>> : a \in {"\r\n", "SIP"}, b \in {"\r\n", "SIP"}}

SocketMessage ==
  /\ TaskBoundary(transport)
  /\ \E s \in 1..Len(transport.sockets), data \in Frames :
        /\ transport.sockets[s] \in {"open", "closing"}
        /\ transport' =
             onWebSocketMessage(
               Log(Begin(transport, "message"),
                   Ev("frame", data, s, transport.keepAliveDebounceTimeout # 0)),
               s, data)
  /\ UNCHANGED <<ua, pub, publishers, digest, transaction, inbound>>

SocketError ==
  /\ TaskBoundary(transport)
  /\ \E s \in 1..Len(transport.sockets) :
        /\ transport.sockets[s] \in {"connecting", "open", "closing"}
        /\ transport' =
             onWebSocketError(
               Log(Begin(transport, "error"), Ev("event", "error", s, FALSE)),
               s)
  /\ UNCHANGED <<ua, pub, publishers, digest, transaction, inbound>>

KeepAliveInterval ==
  /\ TaskBoundary(transport)
  /\ transport.intervals # {}
  /\ \E sendOk \in BOOLEAN :
        transport' = keepAliveIntervalFired(Begin(transport, "keepalive"), sendOk)
  /\ UNCHANGED <<ua, pub, publishers, digest, transaction, inbound>>

KeepAliveDebounce ==
  /\ TaskBoundary(transport)
  /\ \E timer \in transport.debounces :
        transport' = keepAliveDebounceFired(Begin(transport, "debounce"), timer)
  /\ UNCHANGED <<ua, pub, publishers, digest, transaction, inbound>>

(***************************************************************************)
(* UserAgent                                                               *)
(***************************************************************************)
UserAgentState == {"Stopped", "Started"}

\* defaultOptions.reconnectionDelay, in seconds.
reconnectionDelay == 4

\* The kinds of objects the user agent keeps a collection of.
Kinds == {"registerer", "session", "subscription", "publisher"}

Obj(kind, id) == [kind |-> kind, id |-> id]

\* One of the collections _registerers, _sessions, _subscriptions and
\* _publishers, in insertion order.
OfKind(u, kind) == SelectSeq(u.objects, LAMBDA o : o.kind = kind)

\* delete collection[id]
Without(objects, o) == SelectSeq(objects, LAMBDA x : x # o)

\* UserAgent constructor with options.reconnectionAttempts = n: nothing in
\* the collections, no stop() running, no reconnection timer, no
\* transport.connect() put off by a reconnect().
UserAgentInit(n) ==
  [state |-> "Stopped", stateInitial |-> TRUE, instances |-> 1,
   reconnectionAttempts |-> n, objects |-> <<>>, created |-> 0,
   stops |-> <<>>, chains |-> <<>>, deferred |-> 0,
   thrown |-> "none", op |-> "new", ret |-> NoRet, trace |-> <<>>]

\* A user agent and its transport after a handler of the user agent.
Both(u, t) == [u |-> u, t |-> t]

\* UserAgent.transitionState(newState)
uaTransitionState(u, newState) ==
  IF \/ (u.state = "Started" /\ newState # "Stopped")
     \/ (u.state = "Stopped" /\ newState # "Started")
  THEN [u EXCEPT !.thrown = "Error", !.ret = Ret("threw", 0, "Error")]
  ELSE Log([u EXCEPT !.state = newState],
           Ev("stateChange", newState, 0, FALSE))

\* Mutant: attemptReconnection does not compare with reconnectionAttempts.
attemptReconnection_NoLimit(u, c, reconnectionAttempt) ==
  [u EXCEPT !.chains =
     [k \in 1..(IF c > Len(@) THEN c ELSE Len(@)) |->
        IF k = c
        THEN [attempt |-> reconnectionAttempt, pc |-> "timer", h |-> 0,
              delay |-> IF reconnectionAttempt = 1 THEN 0
                        ELSE reconnectionDelay * 1000]
        ELSE @[k]]]

\* UserAgent.attemptReconnection(reconnectionAttempt) for chain c; c is the
\* next free index when the chain starts.
attemptReconnection(u, c, reconnectionAttempt) ==
  IF reconnectionAttempt > u.reconnectionAttempts
  THEN [u EXCEPT !.chains[c].pc = "exhausted"]
  ELSE [u EXCEPT !.chains =
          [k \in 1..(IF c > Len(@) THEN c ELSE Len(@)) |->
             IF k = c
             THEN [attempt |-> reconnectionAttempt, pc |-> "timer", h |-> 0,
                   delay |-> IF reconnectionAttempt = 1 THEN 0
                             ELSE reconnectionDelay * 1000]
             ELSE @[k]]]

\* UserAgent.onTransportConnect
onTransportConnect(u) ==
  IF u.state = "Stopped" THEN u
  ELSE Log(u, Ev("delegate.onConnect", "", 0, FALSE))

\* The reconnection started at the end of onTransportDisconnect.
ReconnectIfError(u, error) ==
  IF error /\ u.reconnectionAttempts > 0
  THEN attemptReconnection(u, Len(u.chains) + 1, 1)
  ELSE u

\* UserAgent.onTransportDisconnect(error)
onTransportDisconnect(u, error) ==
  IF u.state = "Stopped" THEN u
  ELSE ReconnectIfError(Log(u, Ev("delegate.onDisconnect", "", 0, error)),
                        error)

\* Whether the transport handler that led to t made the callback e, and
\* whether it passed an error.
Called(t, e) == \E i \in 1..Len(t.trace) : t.trace[i].e = e
CalledWithError(t, e) ==
  \E i \in 1..Len(t.trace) : t.trace[i].e = e /\ t.trace[i].b

\* initTransportCallbacks: the transport's onConnect and onDisconnect are
\* the user agent's handlers; t is the transport after its handler.
IfOnConnect(u, t) ==
  IF Called(t, "onConnect") THEN onTransportConnect(u) ELSE u

IfOnDisconnect(u, t) ==
  IF Called(t, "onDisconnect")
  THEN onTransportDisconnect(u, CalledWithError(t, "onDisconnect"))
  ELSE u

TransportCallbacks(u, t) == IfOnDisconnect(IfOnConnect(u, t), t)

\* A call of the transport made by the user agent: the call is recorded,
\* the callbacks the transport made are run, and both are handed back.
TransportCall(u, name, t) ==
  Both(TransportCallbacks(Log(u, Ev(name, t.ret.kind, t.ret.h, FALSE)), t), t)

\* The transport in use after "if (!this._stateInitial) { ... }" of start():
\* a new one is constructed only when the flag is found false.
Rebuild(u) ==
  IF ~u.stateInitial
  THEN [u EXCEPT !.stateInitial = FALSE, !.instances = @ + 1]
  ELSE u

RebuildTransport(u, t) == IF ~u.stateInitial THEN TransportInit ELSE t

\* start() hands back what transport.connect() returned.
ReturnTransport(b) == Both([b.u EXCEPT !.ret = b.t.ret], b.t)

\* start() after its state transition: return this.transport.connect().
StartConnect(u, t, wsOk) ==
  IF u.thrown # "none" THEN Both(u, t)
  ELSE ReturnTransport(
         TransportCall(u, "transport.connect",
                       _connect(Begin(t, "connect"), wsOk, NoObservers)))

\* Mutant: start() does not look at the state.
start_Unguarded(u, t, wsOk) ==
  StartConnect(uaTransitionState(Rebuild(u), "Started"),
               RebuildTransport(u, t), wsOk)

\* UserAgent.start()
start(u, t, wsOk) ==
  IF u.state = "Started"
  THEN Both([u EXCEPT !.ret = Ret("resolved", 0, "none")], t)
  ELSE StartConnect(uaTransitionState(Rebuild(u), "Started"),
                    RebuildTransport(u, t), wsOk)

\* Mutant: stop() disposes the publishers first.
StopOrder_PublishersFirst(u) ==
  OfKind(u, "publisher") \o OfKind(u, "registerer")
    \o OfKind(u, "session") \o OfKind(u, "subscription")

\* The local copies stop() takes of the collections, in the order in which
\* its four loops go through them.
StopOrder(u) ==
  OfKind(u, "registerer") \o OfKind(u, "session")
    \o OfKind(u, "subscription") \o OfKind(u, "publisher")

\* A run of stop(): the copies taken, how many objects it has called
\* dispose() on, where it waits, the transport handle it waits for and what
\* it has done so far.
NewRun(u) ==
  [u EXCEPT !.stops = Append(@, [snap |-> StopOrder(u), idx |-> 0,
                                 pc |-> "run", h |-> 0, log |-> <<>>]),
            !.ret = Ret("stop", Len(u.stops) + 1, "none")]

RunLog(u, r, e) == [u EXCEPT !.stops[r].log = Append(@, e)]

\* The object run r waits for, and the one it turns to next.
CurObj(u, r) == u.stops[r].snap[u.stops[r].idx]
NextObj(u, r) == u.stops[r].snap[u.stops[r].idx + 1]

\* "await o.dispose()": dispose() is called and the run waits.  A publisher
\* takes itself out of the collection in dispose().
CallDispose(u, r, o) ==
  Log([u EXCEPT !.stops[r].idx = @ + 1,
                !.stops[r].pc = "dispose",
                !.stops[r].log = Append(@, Ev("dispose", o.kind, o.id, FALSE)),
                !.objects = IF o.kind = "publisher" THEN Without(@, o) ELSE @],
      Ev("dispose", o.kind, o.id, FALSE))

\* Where the run waits after transport.dispose() returned or threw.
AwaitTransport(b, r) ==
  Both([b.u EXCEPT
          !.stops[r].pc = IF b.t.ret.kind \in {"handle", "resolved"}
                          THEN "transport" ELSE "failed",
          !.stops[r].h = b.t.ret.h],
       b.t)

\* "await transport.dispose()"
CallTransportDispose(u, t, r) ==
  AwaitTransport(
    TransportCall(RunLog(u, r, Ev("disconnect", "", 0, FALSE)),
                  "transport.disconnect",
                  _disconnect(Begin(t, "disconnect"), NoObservers)),
    r)

\* stop() up to its next await: the next dispose() of the four loops or,
\* after the loops, transport.dispose().
StopStep(u, t, r) ==
  IF u.stops[r].idx < Len(u.stops[r].snap)
  THEN Both(CallDispose(u, r, NextObj(u, r)), t)
  ELSE CallTransportDispose(u, t, r)

\* stop() after its state transition.
StopRun(u, t) ==
  IF u.thrown # "none" THEN Both(u, t)
  ELSE StopStep(NewRun(u), t, Len(u.stops) + 1)

\* UserAgent.stop(), up to its first await.
stop(u, t) ==
  IF u.state = "Stopped"
  THEN Both([u EXCEPT !.ret = Ret("resolved", 0, "none")], t)
  ELSE StopRun(uaTransitionState(u, "Stopped"), t)

\* The catch handler of "await o.dispose()": logger.error(error.message),
\* the object is deleted from its collection, and the error is thrown again.
CatchDispose(u, r) ==
  Log([u EXCEPT !.objects = Without(@, CurObj(u, r))],
      Ev("logger.error", CurObj(u, r).kind, CurObj(u, r).id, FALSE))

\* Mutant: the catch handler does not throw the error again.
disposeRejected_Swallowed(u, t, r) == StopStep(CatchDispose(u, r), t, r)

\* "await o.dispose()" when dispose() rejected: the error thrown again by
\* the catch handler ends stop(), whose promise rejects.
disposeRejected(u, t, r) ==
  Both([CatchDispose(u, r) EXCEPT !.stops[r].pc = "failed"], t)

\* stop() resumed after "await o.dispose()": on success the loops go on.
disposeSettled(u, t, r, ok) ==
  IF ok
  THEN StopStep(RunLog(u, r, Ev("disposed", CurObj(u, r).kind,
                                CurObj(u, r).id, FALSE)),
                t, r)
  ELSE disposeRejected(u, t, r)

\* stop() resumed after "await transport.dispose()": userAgentCore.dispose().
transportDisposed(u, t, r) ==
  IF (IF u.stops[r].h = 0 THEN TRUE
      ELSE t.handles[u.stops[r].h].status = "resolved")
  THEN Log([u EXCEPT !.stops[r].pc = "done",
                     !.stops[r].log = @ \o <<Ev("disconnected", "", 0, FALSE),
                                             Ev("reset", "", 0, FALSE)>>],
           Ev("userAgentCore.dispose", "", 0, FALSE))
  ELSE [u EXCEPT !.stops[r].pc = "failed"]

\* The timer set by attemptReconnection fires: this.reconnect().
reconnectTimerFired(u, c) ==
  Log([u EXCEPT !.chains[c].pc =
         IF u.state = "Stopped" THEN "rejected" ELSE "calling"],
      Ev("reconnect", "", u.chains[c].attempt, u.state = "Stopped"))

\* Where the chain waits after transport.connect() returned or threw.
AwaitConnect(b, c) ==
  Both([b.u EXCEPT
          !.chains[c].pc = CASE b.t.ret.kind = "handle" -> "await"
                             [] b.t.ret.kind = "resolved" -> "resolved"
                             [] OTHER -> "rejected",
          !.chains[c].h = b.t.ret.h],
       b.t)

\* reconnect(): Promise.resolve().then(() => this.transport.connect())
reconnectCall(u, t, c, wsOk) ==
  AwaitConnect(
    TransportCall(u, "transport.connect",
                  _connect(Begin(t, "connect"), wsOk, NoObservers)),
    c)

\* UserAgent.reconnect() called by the application: rejected while Stopped,
\* else transport.connect() is put off to a promise reaction.
reconnect(u) ==
  IF u.state = "Stopped"
  THEN [u EXCEPT !.ret = Ret("rejected", 0, "Error")]
  ELSE [u EXCEPT !.deferred = @ + 1, !.ret = Ret("deferred", 0, "none")]

\* The reaction of reconnect(): () => this.transport.connect()
reconnectDeferred(u, t, wsOk) ==
  TransportCall([u EXCEPT !.deferred = @ - 1], "transport.connect",
                _connect(Begin(t, "connect"), wsOk, NoObservers))

\* How the promise of reconnect() of chain c came out.
Outcome(u, t, c) ==
  IF u.chains[c].pc = "await" THEN t.handles[u.chains[c].h].status
  ELSE u.chains[c].pc

\* The then/catch handlers attemptReconnection attached to reconnect().
reconnectSettled(u, t, c) ==
  IF Outcome(u, t, c) = "resolved"
  THEN [u EXCEPT !.chains[c].pc = "succeeded"]
  ELSE attemptReconnection(u, c, u.chains[c].attempt + 1)

\* The constructor of a Registerer, Session, Subscription or Publisher adds
\* the new object to the user agent's collection.
newObject(u, kind) ==
  [u EXCEPT !.objects = Append(@, Obj(kind, u.created + 1)),
            !.created = @ + 1]

(***************************************************************************)
(* UserAgent actions                                                       *)
(***************************************************************************)
Becomes(b) == ua' = b.u /\ transport' = b.t

HandleRoom(t) == Len(t.handles) < MaxHandles

\* Continuations that run before the next task: a stop() whose awaited
\* promise is settled, and the handlers of a reconnect() under way.
RunReady(u, t, r) ==
  /\ u.stops[r].pc = "transport"
  /\ IF u.stops[r].h = 0 THEN TRUE
     ELSE t.handles[u.stops[r].h].status # "pending"

PublisherAwaited(u, r) ==
  u.stops[r].pc = "dispose" /\ CurObj(u, r).kind = "publisher"

ChainReady(u, t, c) ==
  IF u.chains[c].pc = "await"
  THEN t.handles[u.chains[c].h].status # "pending"
  ELSE u.chains[c].pc \in {"resolved", "rejected"}

UATaskBoundary ==
  /\ TaskBoundary(transport)
  /\ \A r \in 1..Len(ua.stops) :
       ~RunReady(ua, transport, r) /\ ~PublisherAwaited(ua, r)
  /\ \A c \in 1..Len(ua.chains) :
       ~ChainReady(ua, transport, c) /\ ua.chains[c].pc # "calling"
  /\ ua.deferred = 0

\* The reaction queued by the reconnect() of a timer callback runs before
\* any code of the application does.
NoChainCalling(u) == \A c \in 1..Len(u.chains) : u.chains[c].pc # "calling"

UAStart ==
  /\ NoChainCalling(ua)
  /\ Room(transport)
  /\ \E wsOk \in BOOLEAN :
        Becomes(start(Begin(ua, "start"), transport, wsOk))
  /\ UNCHANGED <<pub, publishers, digest, transaction, inbound>>

UAStop ==
  /\ NoChainCalling(ua)
  /\ HandleRoom(transport)
  /\ ua.state = "Started" => Len(ua.stops) < MaxStops
  /\ Becomes(stop(Begin(ua, "stop"), transport))
  /\ UNCHANGED <<pub, publishers, digest, transaction, inbound>>

UANewObject ==
  /\ ua.created < MaxObjects
  /\ \E kind \in Kinds : ua' = newObject(Begin(ua, "new"), kind)
  /\ UNCHANGED <<transport, pub, publishers, digest, transaction, inbound>>

UADisposeSettled ==
  /\ HandleRoom(transport)
  /\ \E r \in 1..Len(ua.stops), ok \in BOOLEAN :
        /\ ua.stops[r].pc = "dispose"
        /\ CurObj(ua, r).kind = "publisher" => ok
        /\ Becomes(disposeSettled(Begin(ua, "disposed"), transport, r, ok))
  /\ UNCHANGED <<pub, publishers, digest, transaction, inbound>>

UATransportDisposed ==
  /\ \E r \in 1..Len(ua.stops) :
        /\ RunReady(ua, transport, r)
        /\ ua' = transportDisposed(Begin(ua, "stopped"), transport, r)
  /\ UNCHANGED <<transport, pub, publishers, digest, transaction, inbound>>

UASocketOpen ==
  /\ UATaskBoundary
  /\ \E s \in 1..Len(transport.sockets) :
        /\ transport.sockets[s] = "connecting"
        /\ transport' = onWebSocketOpen(
                          SocketEvent(Begin(transport, "open"), s, "open"),
                          s, NoObservers)
  /\ ua' = TransportCallbacks(Begin(ua, "open"), transport')
  /\ UNCHANGED <<pub, publishers, digest, transaction, inbound>>

UASocketClose ==
  /\ UATaskBoundary
  /\ \E s \in 1..Len(transport.sockets) :
        /\ transport.sockets[s] \in {"connecting", "open", "closing"}
        /\ transport' = onWebSocketClose(
                          SocketEvent(Begin(transport, "close"), s, "closed"),
                          s, NoObservers)
  /\ ua' = TransportCallbacks(Begin(ua, "close"), transport')
  /\ UNCHANGED <<pub, publishers, digest, transaction, inbound>>

UAConnectTimeout ==
  /\ UATaskBoundary
  /\ transport.connectTimeout # 0
  /\ transport' = connectTimeoutFired(Begin(transport, "timeout"))
  /\ ua' = TransportCallbacks(Begin(ua, "timeout"), transport')
  /\ UNCHANGED <<pub, publishers, digest, transaction, inbound>>

UAConstructionFailed ==
  /\ transport.failTask # 0
  /\ transport' = constructionFailedTask(Begin(transport, "failtask"),
                                         NoObservers)
  /\ ua' = TransportCallbacks(Begin(ua, "failtask"), transport')
  /\ UNCHANGED <<pub, publishers, digest, transaction, inbound>>

UAReconnectTimer ==
  /\ UATaskBoundary
  /\ Room(transport)
  /\ \E c \in 1..Len(ua.chains) :
        /\ ua.chains[c].pc = "timer"
        /\ ua' = reconnectTimerFired(Begin(ua, "timer"), c)
  /\ UNCHANGED <<transport, pub, publishers, digest, transaction, inbound>>

UAReconnectCall ==
  /\ \E c \in 1..Len(ua.chains), wsOk \in BOOLEAN :
        /\ ua.chains[c].pc = "calling"
        /\ Becomes(reconnectCall(Begin(ua, "reconnect"), transport, c, wsOk))
  /\ UNCHANGED <<pub, publishers, digest, transaction, inbound>>

UAReconnectSettled ==
  /\ \E c \in 1..Len(ua.chains) :
        /\ ChainReady(ua, transport, c)
        /\ ua' = reconnectSettled(Begin(ua, "reconnected"), transport, c)
  /\ UNCHANGED <<transport, pub, publishers, digest, transaction, inbound>>

UAReconnect ==
  /\ NoChainCalling(ua)
  /\ ua.deferred < MaxDeferred
  /\ ua' = reconnect(Begin(ua, "reconnect()"))
  /\ UNCHANGED <<transport, pub, publishers, digest, transaction, inbound>>

UAReconnectDeferred ==
  /\ ua.deferred > 0
  /\ Room(transport)
  /\ \E wsOk \in BOOLEAN :
        Becomes(reconnectDeferred(Begin(ua, "deferred"), transport, wsOk))
  /\ UNCHANGED <<pub, publishers, digest, transaction, inbound>>

(***************************************************************************)
(* Publisher                                                               *)
(***************************************************************************)
PublisherState == {"Initial", "Published", "Unpublished", "Terminated"}

\* Number("...") of a header that is no number.
NaN == -1

\* A header that is not there.
Absent == -2

\* a <= b and a >= b on numbers: false as soon as one side is NaN.
Le(a, b) == a # NaN /\ b # NaN /\ a <= b
Gt(a, b) == a # NaN /\ b # NaN /\ a > b

\* The responses a PUBLISH can get: the status class, the SIP-ETag (0 when
\* absent) and the value of Expires or Min-Expires.
Response(code, etag, expires) == [code |-> code, etag |-> etag, expires |-> expires]

\* Publisher constructor with options.expires and options.unpublishOnClose:
\* state Initial, nothing published, no timer, listed in _publishers.
PublisherInit(expires, unpublishOnClose) ==
  [state |-> "Initial", disposed |-> FALSE, listed |-> TRUE,
   optBody |-> 0, optExpires |-> expires, unpublishOnClose |-> unpublishOnClose,
   pubRequestBody |-> 0, pubRequestExpires |-> expires, pubRequestEtag |-> 0,
   publishRefreshTimer |-> 0, timers |-> {}, armed |-> 0,
   requests |-> <<>>, inflight |-> 0,
   thrown |-> "none", op |-> "new", ret |-> NoRet, trace |-> <<>>]

\* if (this.publishRefreshTimer) { clearTimeout(...); ... = undefined }
ClearTimer(p) ==
  IF p.publishRefreshTimer # 0
  THEN [p EXCEPT !.timers = @ \ {p.publishRefreshTimer},
                 !.publishRefreshTimer = 0]
  ELSE p

\* Mutant: sendPublishRequest never adds SIP-If-Match.
sendPublishRequest_NoIfMatch(p) ==
  Log([p EXCEPT !.requests = Append(@, [event |-> TRUE,
                                        expires |-> p.pubRequestExpires,
                                        etag |-> 0,
                                        body |-> p.pubRequestBody]),
                !.inflight = @ + 1],
      Ev("PUBLISH", "", p.pubRequestExpires, FALSE))

\* Publisher.sendPublishRequest: a PUBLISH with the Event header, the
\* current Expires, the current entity tag as SIP-If-Match (0: no such
\* header) and the current body (0: no body).
sendPublishRequest(p) ==
  Log([p EXCEPT !.requests = Append(@, [event |-> TRUE,
                                        expires |-> p.pubRequestExpires,
                                        etag |-> p.pubRequestEtag,
                                        body |-> p.pubRequestBody]),
                !.inflight = @ + 1],
      Ev("PUBLISH", "", p.pubRequestExpires, p.pubRequestEtag # 0))

\* publish() after "Clean up before the run".
PublishBody(p, content) ==
  sendPublishRequest(
    [p EXCEPT !.optBody = content,
              !.pubRequestBody = content,
              !.pubRequestExpires = IF @ = 0 THEN p.optExpires ELSE @,
              !.pubRequestEtag = IF p.pubRequestExpires = 0 THEN 0 ELSE @])

\* Publisher.publish(content)
publish(p, content) ==
  [PublishBody(ClearTimer(p), content) EXCEPT !.ret = Ret("resolved", 0, "none")]

\* unpublish() after "Clean up before the run".
UnpublishBody(p) ==
  IF p.pubRequestEtag # 0
  THEN sendPublishRequest([p EXCEPT !.pubRequestBody = 0,
                                    !.pubRequestExpires = 0])
  ELSE [p EXCEPT !.pubRequestBody = 0, !.pubRequestExpires = 0]

\* Publisher.unpublish()
unpublish(p) ==
  [UnpublishBody(ClearTimer(p)) EXCEPT !.ret = Ret("resolved", 0, "none")]

\* dispose() after this.disposed = true.
DisposeBody(p) ==
  IF p.unpublishOnClose /\ p.state = "Published"
  THEN unpublish(p)
  ELSE [ClearTimer(p) EXCEPT !.pubRequestBody = 0,
                             !.pubRequestExpires = 0,
                             !.pubRequestEtag = 0,
                             !.ret = Ret("resolved", 0, "none")]

\* Mutant: dispose() does not look at this.disposed.
dispose_Unguarded(p) ==
  DisposeBody(Log([p EXCEPT !.disposed = TRUE, !.listed = FALSE],
                  Ev("disposed", p.state, 0, FALSE)))

\* Publisher.dispose()
dispose(p) ==
  IF p.disposed THEN [p EXCEPT !.ret = Ret("resolved", 0, "none")]
  ELSE DisposeBody(Log([p EXCEPT !.disposed = TRUE, !.listed = FALSE],
                       Ev("disposed", p.state, 0, FALSE)))

\* Mutant: stateTransition accepts every transition.
PublisherValid_Any(oldState, newState) == TRUE

\* The validation switch of stateTransition.
PublisherValid(oldState, newState) ==
  CASE oldState = "Initial" ->
         newState \in {"Published", "Unpublished", "Terminated"}
    [] oldState = "Published" ->
         newState \in {"Unpublished", "Terminated"}
    [] oldState = "Unpublished" ->
         newState \in {"Published", "Terminated"}
    [] oldState = "Terminated" -> FALSE

\* stateTransition, "Dispose": if (newState === Terminated) this.dispose()
DisposeIfTerminated(p, newState) ==
  IF newState = "Terminated" THEN [dispose(p) EXCEPT !.ret = p.ret] ELSE p

\* Publisher.stateTransition(newState); nothing is done when an earlier
\* statement of the handler has thrown.
stateTransition(p, newState) ==
  IF p.thrown # "none" THEN p
  ELSE IF ~PublisherValid(p.state, newState)
  THEN Log([p EXCEPT !.thrown = "Error"],
           Ev("invalid", newState, 0, FALSE))
  ELSE DisposeIfTerminated(
         Log([p EXCEPT !.state = newState],
             Ev("stateChange", newState, 0, p.publishRefreshTimer # 0)),
         newState)

\* "this.pubRequestExpires = 0; stateTransition(Unpublished);
\* stateTransition(Terminated)", the way receiveResponse gives up.
GiveUp(p) ==
  stateTransition(
    stateTransition([p EXCEPT !.pubRequestExpires = 0], "Unpublished"),
    "Terminated")

\* receiveResponse, 2xx: "Set SIP-Etag" and "Update Expire".
Accept(p, response) ==
  [p EXCEPT
     !.pubRequestEtag = IF response.etag # 0 THEN response.etag ELSE @,
     !.pubRequestExpires =
        IF /\ response.expires # Absent
           /\ Le(0, response.expires)
           /\ Le(response.expires, @)
        THEN response.expires ELSE @]

\* receiveResponse, 2xx: the refresh timer is armed, without clearing the
\* one armed before, and the state becomes Published; with an Expires of 0
\* the state becomes Unpublished.
Schedule(p) ==
  IF p.pubRequestExpires # 0
  THEN stateTransition([p EXCEPT !.publishRefreshTimer = p.armed + 1,
                                 !.timers = @ \cup {p.armed + 1},
                                 !.armed = @ + 1],
                       "Published")
  ELSE stateTransition(p, "Unpublished")

\* receiveResponse, 412
PreconditionFailed(p) ==
  IF p.pubRequestEtag # 0 /\ p.pubRequestExpires # 0
  THEN [publish(Log([p EXCEPT !.pubRequestEtag = 0],
                    Ev("progress", "412", 0, FALSE)),
                p.optBody)
          EXCEPT !.ret = p.ret]
  ELSE GiveUp(p)

\* typeof x === "number": true of every result of Number(), NaN included.
TypeofNumber(x) == x \in Int

\* receiveResponse, 423, with a Min-Expires header: the test
\* "typeof minExpires === 'number' || minExpires > this.pubRequestExpires".
MinExpiresAccepted(p, minExpires) ==
  TypeofNumber(minExpires) \/ Gt(minExpires, p.pubRequestExpires)

\* receiveResponse, 423
IntervalTooBrief(p, response) ==
  IF p.pubRequestExpires # 0 /\ response.expires # Absent
  THEN IF MinExpiresAccepted(p, response.expires)
       THEN [publish(Log([p EXCEPT !.pubRequestExpires = response.expires],
                         Ev("progress", "423", 0, FALSE)),
                     p.optBody)
               EXCEPT !.ret = p.ret]
       ELSE GiveUp(p)
  ELSE GiveUp(p)

\* receiveResponse, "Do the cleanup"; not reached when the switch threw.
Cleanup(p) ==
  IF p.thrown # "none" THEN p
  ELSE IF p.pubRequestExpires = 0
  THEN [ClearTimer(p) EXCEPT !.pubRequestBody = 0, !.pubRequestEtag = 0]
  ELSE p

\* Publisher.receiveResponse(response)
receiveResponse(p, response) ==
  Cleanup(
    CASE response.code = "1xx" -> Log(p, Ev("progress", "1xx", 0, FALSE))
      [] response.code = "2xx" -> Schedule(Accept(p, response))
      [] response.code = "412" -> PreconditionFailed(p)
      [] response.code = "423" -> IntervalTooBrief(p, response)
      [] OTHER -> GiveUp(p))

\* refreshRequest() after "Clean up before the run".
RefreshBody(p) ==
  IF p.pubRequestEtag = 0 \/ p.pubRequestExpires = 0
  THEN [p EXCEPT !.pubRequestBody = 0, !.thrown = "Error"]
  ELSE sendPublishRequest([p EXCEPT !.pubRequestBody = 0])

\* Publisher.refreshRequest(), run by the refresh timer.
refreshRequest(p) == RefreshBody(ClearTimer(p))

(***************************************************************************)
(* Publisher actions                                                       *)
(***************************************************************************)
HeaderValues == {Absent, NaN} \cup 0..(MaxExpires + 1)

Responses ==
  {Response("1xx", 0, Absent), Response("412", 0, Absent),
   Response("other", 0, Absent)}
    \cup {Response("2xx", e, x) : e \in 0..MaxEtag, x \in HeaderValues}
    \cup {Response("423", 0, x) : x \in HeaderValues}

\* Room for the PUBLISH a handler may send.
RequestRoom(p) == Len(p.requests) < MaxRequests

\* A response to a request in flight; a final response ends the request.
Answered(p, response) ==
  [p EXCEPT !.inflight = IF response.code = "1xx" THEN @ ELSE @ - 1]

\* A timer that fires is no longer pending.
Fired(p, timer) == [p EXCEPT !.timers = @ \ {timer}]

PubPublish ==
  /\ RequestRoom(pub)
  /\ pub' = publish(Begin(pub, "publish"), 1)
  /\ UNCHANGED <<transport, ua, publishers, digest, transaction, inbound>>

PubUnpublish ==
  /\ RequestRoom(pub)
  /\ pub' = unpublish(Begin(pub, "unpublish"))
  /\ UNCHANGED <<transport, ua, publishers, digest, transaction, inbound>>

PubDispose ==
  /\ RequestRoom(pub)
  /\ pub' = dispose(Begin(pub, "dispose"))
  /\ UNCHANGED <<transport, ua, publishers, digest, transaction, inbound>>

PubResponse ==
  /\ RequestRoom(pub)
  /\ pub.inflight > 0
  /\ \E response \in Responses :
        pub' = receiveResponse(Answered(Begin(pub, "response"), response),
                               response)
  /\ UNCHANGED <<transport, ua, publishers, digest, transaction, inbound>>

PubRefreshTimer ==
  /\ RequestRoom(pub)
  /\ \E timer \in pub.timers :
        pub' = refreshRequest(Fired(Begin(pub, "refresh"), timer))
  /\ UNCHANGED <<transport, ua, publishers, digest, transaction, inbound>>

\* The one publish() the application calls on a publisher it has just
\* constructed.
PubPublishOnce ==
  /\ pub.op = "new"
  /\ PubPublish

(***************************************************************************)
(* The user agent's collection of publishers                               *)
(***************************************************************************)
\* The ids target.toString() + ":" + event of the publishers constructed.
PublisherIds == {"sip:a@x:presence", "sip:b@x:presence"}

\* userAgent._publishers, from id to the publisher stored under it (0: no
\* such key), and the publishers constructed so far.
PublishersInit == [_publishers |-> [id \in PublisherIds |-> 0], made |-> <<>>]

\* Publisher constructor, "Identifier" and "Add to the user agent's
\* publisher collection": this.userAgent._publishers[this.id] = this.
newPublisher(ps, id) ==
  [ps EXCEPT !.made = Append(@, [id |-> id,
                                 p |-> PublisherInit(MaxExpires, TRUE)]),
             !._publishers[id] = Len(ps.made) + 1]

\* A handler of publisher i that left it as q; when the handler ran the
\* first dispose(): delete this.userAgent._publishers[this.id].
Handled(ps, i, q) ==
  [ps EXCEPT !.made[i].p = q,
             !._publishers[ps.made[i].id] =
                IF ps.made[i].p.listed /\ ~q.listed THEN 0 ELSE @]

PublishersNew ==
  /\ Len(publishers.made) < MaxPublishers
  /\ \E id \in PublisherIds : publishers' = newPublisher(publishers, id)
  /\ UNCHANGED <<transport, ua, pub, digest, transaction, inbound>>

PublishersPublish ==
  /\ \E i \in 1..Len(publishers.made) :
        /\ RequestRoom(publishers.made[i].p)
        /\ publishers' =
             Handled(publishers, i,
                     publish(Begin(publishers.made[i].p, "publish"), 1))
  /\ UNCHANGED <<transport, ua, pub, digest, transaction, inbound>>

PublishersDispose ==
  /\ \E i \in 1..Len(publishers.made) :
        /\ RequestRoom(publishers.made[i].p)
        /\ publishers' =
             Handled(publishers, i,
                     dispose(Begin(publishers.made[i].p, "dispose")))
  /\ UNCHANGED <<transport, ua, pub, digest, transaction, inbound>>

PublishersResponse ==
  /\ \E i \in 1..Len(publishers.made),
        response \in {Response("2xx", 1, Absent),
                      Response("other", 0, Absent)} :
        /\ RequestRoom(publishers.made[i].p)
        /\ publishers.made[i].p.inflight > 0
        /\ publishers' =
             Handled(publishers, i,
                     receiveResponse(
                       Answered(Begin(publishers.made[i].p, "response"),
                                response),
                       response))
  /\ UNCHANGED <<transport, ua, pub, digest, transaction, inbound>>

(***************************************************************************)
(* DigestAuthentication                                                    *)
(***************************************************************************)
\* The value of a property that was never set.
Undefined == "undefined"

\* !value for a string or undefined.
Falsy(value) == value \in {Undefined, ""}

\* Whether the challenge has the property at all.
Has(challenge, name) == name \in DOMAIN challenge

\* The digits Number.prototype.toString(16) writes.
HexDigits ==
  <<"0", "1", "2", "3", "4", "5", "6", "7",
    "8", "9", "a", "b", "c", "d", "e", "f">>

\* The nonce count is a number that passes 2^32 - 1: it is kept as its
\* hexadecimal digits, the most significant first, without leading zeros.
RECURSIVE Succ(_)
Succ(n) ==
  IF n = <<>> THEN <<1>>
  ELSE IF n[Len(n)] < Len(HexDigits) - 1
  THEN [n EXCEPT ![Len(n)] = @ + 1]
  ELSE Succ(SubSeq(n, 1, Len(n) - 1)) \o <<0>>

\* Number(this.nc).toString(16)
toString16(n) == [i \in 1..Len(n) |-> HexDigits[n[i] + 1]]

\* "00000000".substr(0, length): nothing when the length is not positive.
Zeros(length) == [i \in 1..length |-> "0"]

\* 4294967293, two calls before the last count of eight digits.
NearWrap == <<15, 15, 15, 15, 15, 15, 15, 13>>

\* 4294967296
TwoPow32 == <<1, 0, 0, 0, 0, 0, 0, 0, 0>>

\* The response of a DigestAuthentication that has computed none.
NoResponse ==
  [defined |-> FALSE, realm |-> Undefined, nonce |-> Undefined, nc |-> <<>>,
   cnonce |-> Undefined, qop |-> Undefined, method |-> Undefined,
   uri |-> Undefined, body |-> Undefined]

\* No header rendered.
NoHeader ==
  [algorithm |-> Undefined, realm |-> Undefined, nonce |-> Undefined,
   uri |-> Undefined, response |-> NoResponse, opaque |-> Undefined,
   qop |-> Undefined, cnonce |-> Undefined, nc |-> <<>>]

\* A challenge without any of the properties authenticate() reads.
NoChallenge == [stale |-> Undefined]

\* DigestAuthentication constructor: this.nc = 0; this.ncHex = "00000000".
DigestInit ==
  [algorithm |-> Undefined, realm |-> Undefined, nonce |-> Undefined,
   opaque |-> Undefined, stale |-> Undefined, qop |-> Undefined,
   method |-> Undefined, uri |-> Undefined, cnonce |-> Undefined,
   nc |-> <<0>>, ncHex |-> Zeros(8), response |-> NoResponse,
   op |-> "new", ret |-> "none", was |-> <<0>>, challenge |-> NoChallenge,
   header |-> NoHeader]

\* DigestAuthentication.updateNcHex
updateNcHex(d) ==
  [d EXCEPT !.ncHex = Zeros(8 - Len(d.nc)) \o toString16(d.nc)]

\* Mutant: the nonce count is not brought back to 1.
Wrap_Never(d) == d

\* if (this.nc === 4294967296) { this.nc = 1; this.ncHex = "00000001"; }
Wrap(d) ==
  IF d.nc = TwoPow32
  THEN [d EXCEPT !.nc = <<1>>, !.ncHex = Zeros(7) \o <<"1">>]
  ELSE d

\* DigestAuthentication.calculateResponse(body): MD5 is kept as the list of
\* what is hashed, the user name and password being fixed.
calculateResponse(d, body) ==
  [d EXCEPT !.response =
     CASE d.qop = "auth" ->
            [defined |-> TRUE, realm |-> d.realm, nonce |-> d.nonce,
             nc |-> d.ncHex, cnonce |-> d.cnonce, qop |-> "auth",
             method |-> d.method, uri |-> d.uri, body |-> Undefined]
       [] d.qop = "auth-int" ->
            [defined |-> TRUE, realm |-> d.realm, nonce |-> d.nonce,
             nc |-> d.ncHex, cnonce |-> d.cnonce, qop |-> "auth-int",
             method |-> d.method, uri |-> d.uri,
             body |-> IF Falsy(body) THEN "" ELSE body]
       [] OTHER ->
            [defined |-> TRUE, realm |-> d.realm, nonce |-> d.nonce,
             nc |-> <<>>, cnonce |-> Undefined, qop |-> Undefined,
             method |-> d.method, uri |-> d.uri, body |-> Undefined]]

\* authenticate() from "this.method = request.method" to "return true".
Respond(d, request, body, cnonce) ==
  [calculateResponse(
     Wrap(updateNcHex([d EXCEPT !.method = request.method,
                                !.uri = request.ruri,
                                !.cnonce = cnonce,
                                !.nc = Succ(@)])),
     body)
   EXCEPT !.ret = "true"]

\* return false
Refuse(d) == [d EXCEPT !.ret = "false"]

\* Mutant: a qop list with neither value is taken as no qop.
SelectQop_Lenient(d, request, challenge, body, cnonce) ==
  IF Has(challenge, "qop")
  THEN IF \E i \in 1..Len(challenge.qop) : challenge.qop[i] = "auth"
       THEN Respond([d EXCEPT !.qop = "auth"], request, body, cnonce)
       ELSE IF \E i \in 1..Len(challenge.qop) : challenge.qop[i] = "auth-int"
       THEN Respond([d EXCEPT !.qop = "auth-int"], request, body, cnonce)
       ELSE Respond([d EXCEPT !.qop = Undefined], request, body, cnonce)
  ELSE Respond([d EXCEPT !.qop = Undefined], request, body, cnonce)

\* "'qop' can contain a list of values (Array). Let's choose just one."
SelectQop(d, request, challenge, body, cnonce) ==
  IF Has(challenge, "qop")
  THEN IF \E i \in 1..Len(challenge.qop) : challenge.qop[i] = "auth"
       THEN Respond([d EXCEPT !.qop = "auth"], request, body, cnonce)
       ELSE IF \E i \in 1..Len(challenge.qop) : challenge.qop[i] = "auth-int"
       THEN Respond([d EXCEPT !.qop = "auth-int"], request, body, cnonce)
       ELSE Refuse(d)
  ELSE Respond([d EXCEPT !.qop = Undefined], request, body, cnonce)

\* The checks of the realm and the nonce.
CheckRealm(d, request, challenge, body, cnonce) ==
  IF Falsy(d.realm) THEN Refuse(d)
  ELSE IF Falsy(d.nonce) THEN Refuse(d)
  ELSE SelectQop(d, request, challenge, body, cnonce)

\* The check of the algorithm, MD5 being taken when none is named.
CheckAlgorithm(d, request, challenge, body, cnonce) ==
  IF Falsy(d.algorithm)
  THEN CheckRealm([d EXCEPT !.algorithm = "MD5"],
                  request, challenge, body, cnonce)
  ELSE IF d.algorithm # "MD5" THEN Refuse(d)
  ELSE CheckRealm(d, request, challenge, body, cnonce)

\* A property of the challenge, undefined when the challenge has none.
Get(challenge, name) ==
  IF Has(challenge, name) THEN challenge[name] ELSE Undefined

\* DigestAuthentication.authenticate(request, challenge, body); cnonce is
\* what createRandomToken(12) gives.
authenticate(d, request, challenge, body, cnonce) ==
  CheckAlgorithm([d EXCEPT !.algorithm = Get(challenge, "algorithm"),
                           !.realm = Get(challenge, "realm"),
                           !.nonce = Get(challenge, "nonce"),
                           !.opaque = Get(challenge, "opaque"),
                           !.stale = Get(challenge, "stale")],
                 request, challenge, body, cnonce)

\* DigestAuthentication.toString: throws when no response was computed;
\* opaque is written when set, qop, cnonce and nc when a qop was chosen.
toString(d) ==
  IF ~d.response.defined THEN [d EXCEPT !.ret = "threw"]
  ELSE [d EXCEPT
          !.ret = "header",
          !.header =
             [algorithm |-> d.algorithm, realm |-> d.realm,
              nonce |-> d.nonce, uri |-> d.uri, response |-> d.response,
              opaque |-> IF Falsy(d.opaque) THEN Undefined ELSE d.opaque,
              qop |-> d.qop,
              cnonce |-> IF Falsy(d.qop) THEN Undefined ELSE d.cnonce,
              nc |-> IF Falsy(d.qop) THEN <<>> ELSE d.ncHex]]

\* Start of a call: nothing returned or rendered yet; the challenge given
\* and the nonce count the call found are kept.
DigestBegin(d, op, challenge) ==
  [d EXCEPT !.op = op, !.ret = "none", !.header = NoHeader, !.was = d.nc,
            !.challenge = challenge]

(***************************************************************************)
(* DigestAuthentication actions                                            *)
(***************************************************************************)
\* The qop lists a challenge may offer.
QopLists ==
  {<<>>, <<"auth">>, <<"auth-int">>, <<"token">>,
   <<"auth-int", "auth">>, <<"token", "auth-int">>}

\* The challenges of a 401/407: every property may be missing.
Challenges ==
  LET named == [algorithm : {Undefined, "", "MD5", "SHA-256"},
                realm : {Undefined, "realm"},
                nonce : {Undefined, "nonce"},
                opaque : {Undefined, "opaque"}]
  IN named \cup
     {[k \in DOMAIN c \cup {"qop"} |-> IF k = "qop" THEN q ELSE c[k]] :
        c \in named, q \in QopLists}

Requests == {[method |-> "REGISTER", ruri |-> "sip:x"]}

\* The nonce count leaves room for another call.
NcRoom(d) == Len(d.nc) = 8 \/ (Len(d.nc) = 1 /\ d.nc[1] < MaxNc)

DigestAuthenticate ==
  /\ NcRoom(digest)
  /\ \E request \in Requests, challenge \in Challenges,
        body \in {Undefined, "body"} :
        digest' = authenticate(
                    DigestBegin(digest, "authenticate", challenge),
                    request, challenge, body, "cnonce")
  /\ UNCHANGED <<transport, ua, pub, publishers, transaction, inbound>>

DigestToString ==
  /\ digest' = toString(DigestBegin(digest, "toString", NoChallenge))
  /\ UNCHANGED <<transport, ua, pub, publishers, transaction, inbound>>

(***************************************************************************)
(* Transaction                                                             *)
(***************************************************************************)
\* What transport.send(message) settles with: it resolves, or it rejects
\* with a TransportError, with another Error, or with a value that has no
\* message.
SendResults == {"ok", "TransportError", "Error", "value"}

\* An error object: its class, the send it was created for, whether it was
\* created by the transaction, and whether it carries a message.
ErrorObject(kind, h, converted, message) ==
  [kind |-> kind, h |-> h, converted |-> converted, message |-> message]

NoError == ErrorObject("none", 0, FALSE, FALSE)

\* A Transaction: the promises its send() returned, the promise reactions
\* queued for the end of the running synchronous code, and whether such
\* code is running.
TransactionInit ==
  [sends |-> <<>>, reactions |-> <<>>, running |-> FALSE,
   op |-> "new", trace |-> <<>>]

\* this.transport.send(message).catch(...): the transport's promise is
\* already settled, the handlers attached to it run as a promise reaction,
\* and the promise derived by catch() is what send() returns.
send(x, result) ==
  [x EXCEPT
     !.sends = Append(@, [result |-> result, status |-> "pending",
                          error |-> NoError, hooks |-> 0,
                          hooked |-> NoError]),
     !.reactions = Append(@, Len(x.sends) + 1),
     !.trace = Append(@, Ev("transport.send", result, Len(x.sends) + 1, FALSE))]

\* The error the catch handler passes on: the TransportError itself, or a
\* new TransportError with the message of the error when it has one.
Converted(result, h) ==
  IF result = "TransportError" THEN ErrorObject("TransportError", h, FALSE, TRUE)
  ELSE ErrorObject("TransportError", h, TRUE, result = "Error")

\* The catch handler of send(): this.onTransportError(e); throw e.
catchHandler(x, h) ==
  [x EXCEPT
     !.sends[h].hooks = @ + 1,
     !.sends[h].hooked = Converted(x.sends[h].result, h),
     !.sends[h].status = "rejected",
     !.sends[h].error = Converted(x.sends[h].result, h),
     !.trace = Append(@, Ev("onTransportError", x.sends[h].result, h, FALSE))]

\* The reaction to the transport's promise for send h: nothing but the
\* resolution of the returned promise when the transport resolved, the
\* catch handler when it rejected.
reaction(x, h) ==
  IF x.sends[h].result = "ok"
  THEN [x EXCEPT !.sends[h].status = "resolved"]
  ELSE catchHandler(x, h)

TransactionBegin(x, op) == [x EXCEPT !.op = op, !.trace = <<>>]

(***************************************************************************)
(* Transaction actions                                                     *)
(***************************************************************************)
\* An event of the transaction that makes it send a message: the first of
\* a task of the event loop (no reaction is queued), or a further one made
\* by the code that is running, as trying() followed by reject() in onInvite.
TransactionEvent ==
  /\ Len(transaction.sends) < MaxSends
  /\ transaction.running \/ transaction.reactions = <<>>
  /\ \E result \in SendResults :
        transaction' =
          [send(TransactionBegin(transaction, "event"), result)
             EXCEPT !.running = TRUE]
  /\ UNCHANGED <<transport, ua, pub, publishers, digest, inbound>>

\* The running code returns to the event loop.
TransactionReturn ==
  /\ transaction.running
  /\ transaction' =
       [TransactionBegin(transaction, "return") EXCEPT !.running = FALSE]
  /\ UNCHANGED <<transport, ua, pub, publishers, digest, inbound>>

\* The next queued promise reaction runs.
TransactionReaction ==
  /\ ~transaction.running
  /\ transaction.reactions # <<>>
  /\ transaction' =
       reaction([TransactionBegin(transaction, "reaction")
                   EXCEPT !.reactions = Tail(@)],
                Head(transaction.reactions))
  /\ UNCHANGED <<transport, ua, pub, publishers, digest, inbound>>

(***************************************************************************)
(* UserAgent: inbound messages and the delegate of the user-agent core     *)
(***************************************************************************)
\* The header fields every message must have.
mandatoryHeaders == {"from", "to", "call_id", "cseq", "via"}

\* createRandomToken(5), and an id of another length given as the option
\* sipjsId; strings that are cut are kept as their characters.
RandomToken5 == <<"a", "b", "c", "d", "e">>
ConfiguredId == <<"a", "b", "c">>

\* string.substr(0, length)
Substr(string, length) ==
  SubSeq(string, 1, IF Len(string) < length THEN Len(string) ELSE length)

\* UserAgent.defaultOptions and the options of the constructor, as far as
\* the handling of inbound messages reads them.
InboundOptions ==
  [sipjsId : {RandomToken5, ConfiguredId},
   sipExtensionReplaces : {"Unsupported", "Supported", "Required"},
   allowLegacyNotifications : BOOLEAN,
   allowOutOfDialogRefers : BOOLEAN]

\* The callbacks of UserAgentDelegate that the core delegate looks for.
DelegateCallbacks ==
  {"onInvite", "onMessage", "onNotify", "onRegisterRequest",
   "onSubscribeRequest"}

\* The dialogs of the user-agent core, each early or confirmed, and the
\* sessions of the user agent: d1 is an early INVITE dialog, d2 a confirmed
\* one, d4 a confirmed dialog that no session belongs to.
CoreDialogs == [d1 |-> [early |-> TRUE], d2 |-> [early |-> FALSE],
                d4 |-> [early |-> FALSE]]
CoreSessions == {"d1", "d2"}

\* The user agent as far as inbound messages go: its options, the callbacks
\* its delegate has, the invitations waiting for progress() and what the
\* last handler did.
InboundInit(options, delegate) ==
  [options |-> options, delegate |-> delegate,
   dialogs |-> CoreDialogs, sessions |-> CoreSessions,
   progressing |-> 0, invitations |-> 0,
   thrown |-> "none", op |-> "new", trace |-> <<>>]

\* A user agent constructed without options.
InboundDefault ==
  InboundInit([sipjsId |-> RandomToken5, sipExtensionReplaces |-> "Unsupported",
               allowLegacyNotifications |-> FALSE,
               allowOutOfDialogRefers |-> FALSE],
              {})

\* contentLength && len < Number(contentLength)
BodyTooShort(message) ==
  /\ message.contentLength # Absent
  /\ message.contentLength # NaN
  /\ message.len < message.contentLength

\* onTransportMessage, "Request Checks" and "Handle Request".
RequestChecks(a, message) ==
  IF message.missing # {}
  THEN Log(a, Ev("drop", "headers", 0, FALSE))
  ELSE IF ~message.toTag /\ Substr(message.callId, 5) = a.options.sipjsId
  THEN Log(a, Ev("replyStateless", "", 482, FALSE))
  ELSE IF BodyTooShort(message)
  THEN Log(a, Ev("replyStateless", "", 400, FALSE))
  ELSE Log(a, Ev("receiveIncomingRequestFromTransport", "", 0, FALSE))

\* onTransportMessage, "Response Checks" and "Handle Response".
ResponseChecks(a, message) ==
  IF message.missing # {}
  THEN Log(a, Ev("drop", "headers", 0, FALSE))
  ELSE IF message.vias > 1
  THEN Log(a, Ev("drop", "vias", 0, FALSE))
  ELSE IF ~message.viaMatch
  THEN Log(a, Ev("drop", "via", 0, FALSE))
  ELSE IF BodyTooShort(message)
  THEN Log(a, Ev("drop", "length", 0, FALSE))
  ELSE Log(a, Ev("receiveIncomingResponseFromTransport", "", 0, FALSE))

\* UserAgent.onTransportMessage(messageString); state is the state of the
\* user agent.
onTransportMessage(a, state, message) ==
  IF message.kind = "unparsed"
  THEN Log(a, Ev("drop", "parse", 0, FALSE))
  ELSE IF state = "Stopped" /\ message.kind = "request"
  THEN Log(a, Ev("drop", "stopped", 0, FALSE))
  ELSE IF message.kind = "request" THEN RequestChecks(a, message)
  ELSE ResponseChecks(a, message)

\* invitation.reject({statusCode})
Reject(a, statusCode) == Log(a, Ev("reject", "", statusCode, FALSE))

\* onInvite from "if (!this.delegate || !this.delegate.onInvite)": busy
\* without the callback; else the callback is made, at once or when
\* invitation.progress() has resolved.
DelegateInvite(a, invite) ==
  IF "onInvite" \notin a.delegate THEN Reject(a, 486)
  ELSE IF ~invite.autoSendAnInitialProvisionalResponse
  THEN Log(a, Ev("delegate.onInvite", "", 0, FALSE))
  ELSE [Log(a, Ev("progress", "", 0, FALSE)) EXCEPT !.progressing = @ + 1]

\* onInvite for a Replaces header naming a dialog of the core.
ReplacesDialog(a, invite) ==
  IF ~a.dialogs[invite.replaces.dialog].early /\ invite.replaces.early_only
  THEN Reject(a, 486)
  ELSE IF invite.replaces.dialog \notin a.sessions
  THEN [a EXCEPT !.thrown = "Error"]
  ELSE DelegateInvite(Log(a, Ev("replacee", invite.replaces.dialog, 0, FALSE)),
                      invite)

\* if (sipExtensionReplaces !== SIPExtension.Unsupported) and the request
\* has a Replaces header.
ReplacesHonoured(a, invite) ==
  a.options.sipExtensionReplaces # "Unsupported" /\ invite.replaces.present

\* Mutant: a Replaces header that matches no dialog is let through.
ReplacesChecks_NoDialogAccepted(a, invite) ==
  IF ~ReplacesHonoured(a, invite) THEN DelegateInvite(a, invite)
  ELSE IF invite.replaces.dialog \notin DOMAIN a.dialogs
  THEN DelegateInvite(a, invite)
  ELSE ReplacesDialog(a, invite)

\* onInvite from the test of sipExtensionReplaces on.
ReplacesChecks(a, invite) ==
  IF ~ReplacesHonoured(a, invite) THEN DelegateInvite(a, invite)
  ELSE IF invite.replaces.dialog \notin DOMAIN a.dialogs
  THEN Reject(a, 481)
  ELSE ReplacesDialog(a, invite)

\* userAgentCoreDelegate.onInvite: new Invitation, trying(), then the checks.
onInvite(a, invite) ==
  ReplacesChecks(
    Log(Log([a EXCEPT !.invitations = @ + 1],
            Ev("new Invitation", "", 0, FALSE)),
        Ev("trying", "", 100, FALSE)),
    invite)

\* The handler attached to invitation.progress(): onInvite(invitation).
progressResolved(a) ==
  Log([a EXCEPT !.progressing = @ - 1], Ev("delegate.onInvite", "", 0, FALSE))

\* userAgentCoreDelegate.onNotify
onNotify(a) ==
  IF "onNotify" \in a.delegate
  THEN Log(a, Ev("delegate.onNotify", "", 0, FALSE))
  ELSE IF a.options.allowLegacyNotifications
  THEN Log(a, Ev("accept", "", 0, FALSE))
  ELSE Reject(a, 481)

\* userAgentCoreDelegate.onMessage
onMessage(a) ==
  IF "onMessage" \in a.delegate
  THEN Log(a, Ev("delegate.onMessage", "", 0, FALSE))
  ELSE Log(a, Ev("accept", "", 0, FALSE))

\* userAgentCoreDelegate.onRefer: what follows the test of the option is
\* commented out.
onRefer(a) ==
  IF ~a.options.allowOutOfDialogRefers THEN Reject(a, 405) ELSE a

\* userAgentCoreDelegate.onRegister
onRegister(a) ==
  IF "onRegisterRequest" \in a.delegate
  THEN Log(a, Ev("delegate.onRegisterRequest", "", 0, FALSE))
  ELSE a

\* userAgentCoreDelegate.onSubscribe
onSubscribe(a) ==
  IF "onSubscribeRequest" \in a.delegate
  THEN Log(a, Ev("delegate.onSubscribeRequest", "", 0, FALSE))
  ELSE a

\* Start of a handler; the message or request handled is the first entry of
\* its record.
InboundBegin(a, op, input) ==
  [a EXCEPT !.op = op, !.thrown = "none", !.trace = <<Ev("input", input, 0, FALSE)>>]

(***************************************************************************)
(* Inbound actions                                                         *)
(***************************************************************************)
\* The Call-IDs of inbound messages: starting with the random token, with
\* the configured id only, with neither.
CallIds ==
  {RandomToken5 \o <<"x">>, ConfiguredId \o <<"x", "y", "z">>,
   <<"z", "z", "z", "z", "z", "z">>}

\* What the transport delivers: text the parser rejects, requests and
\* responses with at most one mandatory header missing.
Messages ==
  {[kind |-> "unparsed", missing |-> {}, toTag |-> FALSE,
    callId |-> <<>>, contentLength |-> Absent, len |-> 0,
    vias |-> 0, viaMatch |-> FALSE]}
  \cup [kind : {"request"},
        missing : {{}} \cup {{h} : h \in mandatoryHeaders},
        toTag : BOOLEAN, callId : CallIds,
        contentLength : {Absent, NaN, 1, 2}, len : {1},
        vias : {1}, viaMatch : {TRUE}]
  \cup [kind : {"response"}, missing : {{}, {"via"}},
        toTag : {TRUE}, callId : {RandomToken5 \o <<"x">>},
        contentLength : {Absent, 2}, len : {1},
        vias : {1, 2}, viaMatch : BOOLEAN]

\* The INVITE requests the core hands over: without a Replaces header, or
\* with one naming a dialog (d3 is none of the core's).
Invites ==
  [replaces : [present : {FALSE}, dialog : {"d3"}, early_only : {FALSE}]
              \cup [present : {TRUE}, dialog : {"d1", "d2", "d3", "d4"},
                    early_only : BOOLEAN],
   autoSendAnInitialProvisionalResponse : BOOLEAN]

InboundMessage ==
  /\ \E message \in Messages :
        inbound' = onTransportMessage(
                     InboundBegin(inbound, "message", message),
                     ua.state, message)
  /\ UNCHANGED <<transport, ua, pub, publishers, digest, transaction>>

CoreInvite ==
  /\ inbound.invitations < MaxInvitations
  /\ \E invite \in Invites :
        inbound' = onInvite(InboundBegin(inbound, "invite", invite), invite)
  /\ UNCHANGED <<transport, ua, pub, publishers, digest, transaction>>

CoreProgressResolved ==
  /\ inbound.progressing > 0
  /\ inbound' = progressResolved(InboundBegin(inbound, "progress", 0))
  /\ UNCHANGED <<transport, ua, pub, publishers, digest, transaction>>

CoreNotify ==
  /\ inbound' = onNotify(InboundBegin(inbound, "notify", 0))
  /\ UNCHANGED <<transport, ua, pub, publishers, digest, transaction>>

CoreMessage ==
  /\ inbound' = onMessage(InboundBegin(inbound, "MESSAGE", 0))
  /\ UNCHANGED <<transport, ua, pub, publishers, digest, transaction>>

CoreRefer ==
  /\ inbound' = onRefer(InboundBegin(inbound, "REFER", 0))
  /\ UNCHANGED <<transport, ua, pub, publishers, digest, transaction>>

CoreRegister ==
  /\ inbound' = onRegister(InboundBegin(inbound, "REGISTER", 0))
  /\ UNCHANGED <<transport, ua, pub, publishers, digest, transaction>>

CoreSubscribe ==
  /\ inbound' = onSubscribe(InboundBegin(inbound, "SUBSCRIBE", 0))
  /\ UNCHANGED <<transport, ua, pub, publishers, digest, transaction>>

(***************************************************************************)
(* Specifications                                                          *)
(***************************************************************************)
\* The transport on its own, driven by the application and the socket.
Init ==
  /\ transport = TransportInit
  /\ ua = UserAgentInit(0)
  /\ pub = PublisherInit(MaxExpires, TRUE)
  /\ publishers = PublishersInit
  /\ digest = DigestInit
  /\ transaction = TransactionInit
  /\ inbound = InboundDefault

Next ==
  \/ Connect
  \/ Disconnect
  \/ Send
  \/ SocketOpen
  \/ SocketClose
  \/ ConnectTimeout
  \/ ConstructionFailed

Spec == Init /\ [][Next]_vars

\* Socket events, timers and promise continuations are eventually run by the
\* event loop; calls of the application are not forced.
Fairness ==
  /\ WF_vars(SocketClose)
  /\ WF_vars(ConnectTimeout)
  /\ WF_vars(ConstructionFailed)

SpecFair == Spec /\ Fairness

\* The transport under both settings of the keepAliveInterval option, with
\* the keep-alive timers and the frames the socket delivers.
InitKeepAlive ==
  /\ \E k \in 0..1 :
        transport = [TransportInit EXCEPT !.configuration.keepAliveInterval = k]
  /\ ua = UserAgentInit(0)
  /\ pub = PublisherInit(MaxExpires, TRUE)
  /\ publishers = PublishersInit
  /\ digest = DigestInit
  /\ transaction = TransactionInit
  /\ inbound = InboundDefault

NextKeepAlive ==
  \/ Connect
  \/ Disconnect
  \/ Send
  \/ SocketOpen
  \/ SocketClose
  \/ ConnectTimeout
  \/ ConstructionFailed
  \/ SocketMessage
  \/ SocketError
  \/ KeepAliveInterval
  \/ KeepAliveDebounce

SpecKeepAlive == InitKeepAlive /\ [][NextKeepAlive]_vars

\* The user agent with its transport and its collections: start(), stop()
\* and the socket, with the default reconnectionAttempts of 0.
InitUA ==
  /\ transport = TransportInit
  /\ ua = UserAgentInit(0)
  /\ pub = PublisherInit(MaxExpires, TRUE)
  /\ publishers = PublishersInit
  /\ digest = DigestInit
  /\ transaction = TransactionInit
  /\ inbound = InboundDefault

NextUA ==
  \/ UAStart
  \/ UAStop
  \/ UANewObject
  \/ UADisposeSettled
  \/ UATransportDisposed
  \/ UASocketOpen
  \/ UASocketClose
  \/ UAConnectTimeout
  \/ UAConstructionFailed

SpecUA == InitUA /\ [][NextUA]_vars

\* The user agent with its transport under every reconnectionAttempts
\* option: start(), stop(), the socket and the reconnection timers.
InitReconnect ==
  /\ transport = TransportInit
  /\ \E n \in 0..MaxAttempts : ua = UserAgentInit(n)
  /\ pub = PublisherInit(MaxExpires, TRUE)
  /\ publishers = PublishersInit
  /\ digest = DigestInit
  /\ transaction = TransactionInit
  /\ inbound = InboundDefault

NextReconnect ==
  \/ UAStart
  \/ UAStop
  \/ UATransportDisposed
  \/ UASocketOpen
  \/ UASocketClose
  \/ UAConnectTimeout
  \/ UAConstructionFailed
  \/ UAReconnectTimer
  \/ UAReconnectCall
  \/ UAReconnectSettled

SpecReconnect == InitReconnect /\ [][NextReconnect]_vars

\* The same with the application calling reconnect() as well.
NextStopped ==
  \/ UAStart
  \/ UAStop
  \/ UATransportDisposed
  \/ UASocketOpen
  \/ UASocketClose
  \/ UAConnectTimeout
  \/ UAConstructionFailed
  \/ UAReconnectTimer
  \/ UAReconnectCall
  \/ UAReconnectSettled
  \/ UAReconnect
  \/ UAReconnectDeferred

SpecStopped == InitReconnect /\ [][NextStopped]_vars

\* A publisher under every options.expires and options.unpublishOnClose:
\* the application, the responses of the server and the refresh timer.
InitPub ==
  /\ transport = TransportInit
  /\ ua = UserAgentInit(0)
  /\ \E expires \in 0..MaxExpires, unpublishOnClose \in BOOLEAN :
        pub = PublisherInit(expires, unpublishOnClose)
  /\ publishers = PublishersInit
  /\ digest = DigestInit
  /\ transaction = TransactionInit
  /\ inbound = InboundDefault

NextPub ==
  \/ PubPublish
  \/ PubUnpublish
  \/ PubDispose
  \/ PubResponse
  \/ PubRefreshTimer

SpecPub == InitPub /\ [][NextPub]_vars

\* A publisher on which publish() is called once, and the responses of the
\* server to that PUBLISH and to every PUBLISH sent in answer to a response.
NextResubmit ==
  \/ PubPublishOnce
  \/ PubResponse

SpecResubmit == InitPub /\ [][NextResubmit]_vars

\* Publishers constructed on one user agent, some for the same target and
\* event: construction, publish(), dispose() and the responses.
InitPublishers ==
  /\ transport = TransportInit
  /\ ua = UserAgentInit(0)
  /\ pub = PublisherInit(MaxExpires, TRUE)
  /\ publishers = PublishersInit
  /\ digest = DigestInit
  /\ transaction = TransactionInit
  /\ inbound = InboundDefault

NextPublishers ==
  \/ PublishersNew
  \/ PublishersPublish
  \/ PublishersDispose
  \/ PublishersResponse

SpecPublishers == InitPublishers /\ [][NextPublishers]_vars

\* A DigestAuthentication from its construction, and one whose nonce count
\* has come close to 2^32 - 1 through as many accepted challenges.
InitDigest ==
  /\ transport = TransportInit
  /\ ua = UserAgentInit(0)
  /\ pub = PublisherInit(MaxExpires, TRUE)
  /\ publishers = PublishersInit
  /\ digest \in
       {DigestInit,
        authenticate(
          [DigestInit EXCEPT !.nc = NearWrap, !.was = NearWrap,
                             !.op = "authenticate",
                             !.challenge = [realm |-> "realm", nonce |-> "nonce"]],
          [method |-> "REGISTER", ruri |-> "sip:x"],
          [realm |-> "realm", nonce |-> "nonce"],
          Undefined, "cnonce")}
  /\ transaction = TransactionInit
  /\ inbound = InboundDefault

NextDigest ==
  \/ DigestAuthenticate
  \/ DigestToString

SpecDigest == InitDigest /\ [][NextDigest]_vars


\* A transaction whose sends the transport resolves or rejects.
InitTransaction ==
  /\ transport = TransportInit
  /\ ua = UserAgentInit(0)
  /\ pub = PublisherInit(MaxExpires, TRUE)
  /\ publishers = PublishersInit
  /\ digest = DigestInit
  /\ transaction = TransactionInit
  /\ inbound = InboundDefault

NextTransaction ==
  \/ TransactionEvent
  \/ TransactionReturn
  \/ TransactionReaction

SpecTransaction == InitTransaction /\ [][NextTransaction]_vars

\* A user agent with a generated or a configured sipjsId: start(), stop()
\* and the messages its transport delivers.
InitInbound ==
  /\ transport = TransportInit
  /\ ua = UserAgentInit(0)
  /\ pub = PublisherInit(MaxExpires, TRUE)
  /\ publishers = PublishersInit
  /\ digest = DigestInit
  /\ transaction = TransactionInit
  /\ \E id \in {RandomToken5, ConfiguredId} :
        inbound = [InboundDefault EXCEPT !.options.sipjsId = id]

NextInbound ==
  \/ UAStart
  \/ UAStop
  \/ InboundMessage

SpecInbound == InitInbound /\ [][NextInbound]_vars

\* A user agent under every setting of the options and every delegate, and
\* the out-of-dialog requests its core hands to it.
InitCore ==
  /\ transport = TransportInit
  /\ ua = UserAgentInit(0)
  /\ pub = PublisherInit(MaxExpires, TRUE)
  /\ publishers = PublishersInit
  /\ digest = DigestInit
  /\ transaction = TransactionInit
  /\ \E options \in InboundOptions, delegate \in SUBSET DelegateCallbacks :
        inbound = InboundInit(options, delegate)

NextCore ==
  \/ CoreInvite
  \/ CoreProgressResolved
  \/ CoreNotify
  \/ CoreMessage
  \/ CoreRefer
  \/ CoreRegister
  \/ CoreSubscribe

SpecCore == InitCore /\ [][NextCore]_vars

(***************************************************************************)
(* Reading the record of a handler                                         *)
(***************************************************************************)
IsStateChange(e) == e.e = "stateChange"
IsReenter(e) == e.e = "reenter"

\* The states the transport was in during the step from t to u, in order.
Path(t, u) ==
  LET changes == SelectSeq(u.trace, IsStateChange)
  IN <<t.state>> \o [i \in 1..Len(changes) |-> changes[i].a]

Edges(t, u) ==
  LET p == Path(t, u) IN {<<p[i], p[i + 1]>> : i \in 1..(Len(p) - 1)}

LegalEdges ==
  {<<"Disconnected", "Connecting">>, <<"Connecting", "Connected">>,
   <<"Connecting", "Disconnecting">>, <<"Connecting", "Disconnected">>,
   <<"Connected", "Disconnecting">>, <<"Connected", "Disconnected">>,
   <<"Disconnecting", "Disconnected">>, <<"Disconnecting", "Connecting">>}

HandleIds(t) == 1..Len(t.handles)

(***************************************************************************)
(* Claims                                                                  *)
(***************************************************************************)

\* C1: the transport starts in Disconnected and every state change, under
\* any sequence of connect(), disconnect() and socket events, follows one of
\* the eight legal edges; the state after a handler is the last state it
\* announced.
C1_LegalEdgesOnly ==
  /\ transport.state = "Disconnected"
  /\ [][/\ Edges(transport, transport') \subseteq LegalEdges
        /\ transport'.state = Path(transport, transport')[
                                 Len(Path(transport, transport'))]]_vars

\* A second connection that reached Connected after a full
\* connect/disconnect/connect cycle.
C1_Witness ==
  /\ transport.state = "Connected"
  /\ Len(transport.sockets) = 2
  /\ transport.ws = 2

AttemptHandle(t) == IF t.connectPromise # 0 THEN t.connectPromise ELSE t.failTask

\* C2: a connect() made while Connecting returns the handle of the attempt
\* in progress and opens no socket; a disconnect() made while Disconnecting
\* returns the handle of the disconnect in progress and closes nothing.
C2_DuplicateCallsShare ==
  [][/\ (transport.state = "Connecting" /\ transport'.op = "connect")
          => /\ transport'.ret = Ret("handle", AttemptHandle(transport), "none")
             /\ transport'.sockets = transport.sockets
     /\ (transport.state = "Disconnecting" /\ transport'.op = "disconnect")
          => /\ transport'.ret = Ret("handle", transport.disconnectPromise, "none")
             /\ transport.disconnectPromise # 0
             /\ transport'.trace = <<>>]_vars

SettledAfterNotify(t, u) ==
  \A j \in 1..Len(u.trace) :
    u.trace[j].e = "settle" =>
      /\ u.notified = u.state
      /\ \/ \E i \in 1..(j - 1) : IsStateChange(u.trace[i]) /\ u.trace[i].a = u.state
         \/ /\ \A i \in 1..Len(u.trace) : ~IsStateChange(u.trace[i])
            /\ t.notified = t.state

C3_Step(t, u) ==
  /\ \A h \in HandleIds(t) :
       /\ u.handles[h].settles <= 1
       /\ (u.handles[h].status # "pending") <=> (u.handles[h].settles = 1)
       /\ t.handles[h].status # "pending" => u.handles[h] = t.handles[h]
       /\ (t.handles[h].kind = "connect" /\ t.handles[h].status = "pending")
            => /\ u.handles[h].status = "resolved"
                  <=> (<<"Connecting", "Connected">> \in Edges(t, u)
                       /\ h = t.connectPromise)
               /\ (u.handles[h].status = "rejected") => u.state # "Connecting"
               /\ (h = t.connectPromise /\ t.state = "Connecting"
                   /\ u.state \in {"Disconnected", "Disconnecting"})
                    => u.handles[h].status = "rejected"
  /\ SettledAfterNotify(t, u)

\* C3: each connect handle is settled exactly once and eventually; it is
\* resolved exactly by the step Connecting -> Connected and rejected when
\* Connecting is left for Disconnected or Disconnecting; when a handle is
\* settled the new state has been stored and announced to the observers.
C3_ConnectHandleSettled ==
  /\ [][C3_Step(transport, transport')]_vars
  /\ \A h \in 1..MaxHandles :
       (h \in HandleIds(transport) /\ transport.handles[h].kind = "connect")
         ~> (h \in HandleIds(transport) /\ transport.handles[h].settles = 1)

\* A connect handle resolved by the socket's open event, and another one
\* rejected earlier.
C3_Witness ==
  /\ transport.op = "open"
  /\ transport.state = "Connected"
  /\ Len(transport.handles) = 3
  /\ transport.handles[1] = [kind |-> "connect", status |-> "rejected", settles |-> 1]
  /\ transport.handles[3] = [kind |-> "connect", status |-> "resolved", settles |-> 1]

SendsOf(t) == SelectSeq(t.trace, LAMBDA e : e.e = "ws.send")

\* C4: send() rejects and writes nothing unless the state is Connected; when
\* Connected the message is passed to the current socket exactly once.
C4_SendOnlyWhenConnected ==
  [][transport'.op = "send" =>
       IF transport.state = "Connected"
       THEN /\ Len(SendsOf(transport')) = 1
            /\ SendsOf(transport')[1].n = transport.ws
            /\ transport.ws # 0
            /\ transport.sockets[transport.ws] # "closed"
       ELSE /\ transport'.ret = Ret("rejected", 0, "Error")
            /\ transport'.trace = <<>>
            /\ Core(transport') = Core(transport)]_vars

\* A message written to the second socket.
C4_Witness ==
  /\ transport.op = "send"
  /\ transport.ret.kind = "resolved"
  /\ Len(transport.trace) = 1
  /\ transport.trace[1] = Ev("ws.send", "SIP", 2, FALSE)

ReentriesOf(t) == SelectSeq(t.trace, IsReenter)

\* C5: a connect() or disconnect() made by an observer or by the
\* onConnect/onDisconnect callback during a transition is rejected with a
\* StateTransitionError and changes neither the state nor the handles.
C5_ReentryRejected ==
  \A i \in 1..Len(ReentriesOf(transport)) :
    /\ ReentriesOf(transport)[i].a = "rejected:STE"
    /\ ReentriesOf(transport)[i].b

\* An observer and the onDisconnect callback both called back during the
\* step that left Connected.
C5_Witness ==
  /\ Len(ReentriesOf(transport)) = 2
  /\ \E i \in 1..Len(transport.trace) : transport.trace[i].e = "onDisconnect"
  /\ transport.state = "Disconnected"

\* C6 as claimed: the in-transition flag is already cleared when the
\* observers are notified and when handles are settled.
C6_FlagClearedBeforeNotify ==
  \A i \in 1..Len(transport.trace) :
    transport.trace[i].e \in {"stateChange", "settle"} => ~transport.trace[i].b

\* C6 as amended: the flag is still set when observers are notified and
\* when handles are settled by a transition, so that a call from an
\* observer is rejected and not queued: the handler ends in the state it
\* announced, reached by a single transition.
C6_FlagSetWhileNotifying ==
  /\ \A i \in 1..Len(transport.trace) :
       (transport.trace[i].e = "stateChange"
        \/ (transport.trace[i].e = "settle" /\ transport.op # "failtask"))
         => transport.trace[i].b
  /\ ReentriesOf(transport) # <<>> =>
       /\ Len(SelectSeq(transport.trace, IsStateChange)) = 1
       /\ SelectSeq(transport.trace, IsStateChange)[1].a = transport.state

\* An observer called connect() while being told of Disconnected.
C6_Witness ==
  /\ transport.op = "close"
  /\ transport.state = "Disconnected"
  /\ Len(transport.trace) >= 2
  /\ transport.trace[1] = Ev("stateChange", "Disconnected", 0, TRUE)
  /\ transport.trace[2].e = "reenter"
  /\ ~transport.transitioningState

Rank(kind) ==
  CASE kind = "registerer" -> 1
    [] kind = "session" -> 2
    [] kind = "subscription" -> 3
    [] kind = "publisher" -> 4

StopTail == <<"disconnect", "disconnected", "reset">>

Expected(snap) ==
  [k \in 1..(2 * Len(snap) + 3) |->
     IF k <= 2 * Len(snap)
     THEN Ev(IF k % 2 = 1 THEN "dispose" ELSE "disposed",
             snap[(k + 1) \div 2].kind, snap[(k + 1) \div 2].id, FALSE)
     ELSE Ev(StopTail[k - 2 * Len(snap)], "", 0, FALSE)]

IsPrefix(a, b) == Len(a) <= Len(b) /\ \A i \in 1..Len(a) : a[i] = b[i]

Range(seq) == {seq[i] : i \in 1..Len(seq)}

C7_RunInOrder(run) ==
  /\ \A i, j \in 1..Len(run.snap) :
       i < j => Rank(run.snap[i].kind) <= Rank(run.snap[j].kind)
  /\ IsPrefix(run.log, Expected(run.snap))
  /\ run.pc = "done" => run.log = Expected(run.snap)
  /\ run.pc \in {"run", "dispose", "transport"}
       => Len(run.log) = (IF run.pc = "transport" THEN 2 * Len(run.snap) + 1
                          ELSE 2 * run.idx - 1)

C7_NewRun(u, t, v, w) ==
  (v.op = "stop" /\ u.state = "Started") =>
    /\ Len(v.stops) = Len(u.stops) + 1
    /\ Range(v.stops[Len(v.stops)].snap) = Range(u.objects)
    /\ Len(v.stops[Len(v.stops)].snap) = Len(u.objects)

C7_TransportAfterDispose(u, t, v, w) ==
  \A r \in 1..Len(v.stops) :
    (Len(v.stops[r].log) > 2 * Len(v.stops[r].snap)
     /\ (r > Len(u.stops) \/ Len(u.stops[r].log) <= 2 * Len(u.stops[r].snap)))
      => /\ Called(v, "transport.disconnect")
         /\ w.op = "disconnect"

UACore(u) ==
  [state |-> u.state, stateInitial |-> u.stateInitial,
   instances |-> u.instances, objects |-> u.objects, created |-> u.created,
   stops |-> u.stops, chains |-> u.chains]

C8_Step(u, t, v, w) ==
  /\ v.state \in UserAgentState
  /\ v.state # u.state =>
       \/ v.op = "start" /\ u.state = "Stopped" /\ v.state = "Started"
       \/ v.op = "stop" /\ u.state = "Started" /\ v.state = "Stopped"
  /\ (v.op = "start" /\ u.state = "Stopped") => v.state = "Started"
  /\ (v.op = "stop" /\ u.state = "Started") => v.state = "Stopped"
  /\ ((v.op = "start" /\ u.state = "Started")
      \/ (v.op = "stop" /\ u.state = "Stopped"))
       => /\ v.trace = <<>>
          /\ v.ret = Ret("resolved", 0, "none")
          /\ UACore(v) = UACore(u)
          /\ w = t
  /\ v.op \in {"start", "stop"} => v.thrown = "none"

\* C8: the user agent is Stopped after construction and its state changes
\* only by start() from Stopped to Started and by stop() from Started to
\* Stopped; start() while Started and stop() while Stopped, also while an
\* earlier stop() has not finished, change nothing, notify nothing, dispose
\* nothing and do not call the transport; no start() or stop() fails with
\* an invalid-transition error.
C8_StartStopAlternate ==
  /\ ua.state = "Stopped"
  /\ [][C8_Step(ua, transport, ua', transport')]_vars

\* A second stop() made while the first one still waits for a dispose().
C8_Witness ==
  /\ ua.op = "stop"
  /\ ua.state = "Stopped"
  /\ ua.ret = Ret("resolved", 0, "none")
  /\ \E r \in 1..Len(ua.stops) : ua.stops[r].pc = "dispose"

TransportRan(v) ==
  \/ v.op \in {"open", "close", "failtask", "timeout"}
  \/ Called(v, "transport.connect")
  \/ Called(v, "transport.disconnect")

C9_Chain(u, ch) ==
  /\ ch.attempt \in 1..u.reconnectionAttempts
  /\ ch.delay = IF ch.attempt = 1 THEN 0 ELSE reconnectionDelay * 1000
  /\ ch.pc \in {"timer", "calling", "await", "resolved", "rejected",
                "succeeded", "exhausted"}

C9_Step(u, t, v, w) ==
  /\ Len(v.chains) \in {Len(u.chains), Len(u.chains) + 1}
  /\ Len(v.chains) > Len(u.chains)
       <=> /\ TransportRan(v)
           /\ CalledWithError(w, "onDisconnect")
           /\ v.state = "Started"
           /\ v.reconnectionAttempts > 0
  /\ Len(v.chains) > Len(u.chains)
       => v.chains[Len(v.chains)] =
            [attempt |-> 1, pc |-> "timer", h |-> 0, delay |-> 0]
  /\ \A c \in 1..Len(u.chains) :
       /\ u.chains[c].pc \in {"succeeded", "exhausted"}
            => v.chains[c] = u.chains[c]
       /\ v.chains[c].attempt # u.chains[c].attempt
            => /\ v.chains[c].attempt = u.chains[c].attempt + 1
               /\ v.op = "reconnected"
               /\ Outcome(u, t, c) = "rejected"
               /\ v.chains[c].pc = "timer"
       /\ (v.chains[c].pc = "calling" /\ u.chains[c].pc # "calling")
            => u.chains[c].pc = "timer" /\ v.op = "timer"
       /\ (v.chains[c].pc = "succeeded" /\ u.chains[c].pc # "succeeded")
            => Outcome(u, t, c) = "resolved"
       /\ (v.chains[c].pc = "exhausted" /\ u.chains[c].pc # "exhausted")
            => /\ Outcome(u, t, c) = "rejected"
               /\ u.chains[c].attempt = u.reconnectionAttempts

\* C9: a reconnection is started exactly when the transport leaves
\* Connected with an error while the user agent is Started and
\* reconnectionAttempts > 0; its attempts are numbered 1, 2, ... up to
\* reconnectionAttempts at most, the first with no delay and the later ones
\* after reconnectionDelay; the next attempt is set up only by the failure
\* of the previous one, and a reconnection that succeeded or ran out of
\* attempts does nothing more.
C9_ReconnectionBounded ==
  /\ [](\A c \in 1..Len(ua.chains) : C9_Chain(ua, ua.chains[c]))
  /\ [][C9_Step(ua, transport, ua', transport')]_vars

\* A reconnection whose first attempt failed and whose second attempt,
\* made after the delay, succeeded.
C9_Witness ==
  /\ ua.reconnectionAttempts = 2
  /\ Len(ua.chains) >= 1
  /\ ua.chains[1].attempt = 2
  /\ ua.chains[1].pc = "succeeded"
  /\ ua.chains[1].delay = reconnectionDelay * 1000
  /\ transport.state = "Connected"

PublisherLegalEdges ==
  {<<"Initial", "Published">>, <<"Initial", "Unpublished">>,
   <<"Initial", "Terminated">>, <<"Published", "Unpublished">>,
   <<"Published", "Terminated">>, <<"Unpublished", "Published">>,
   <<"Unpublished", "Terminated">>}

C10_Step(p, q) ==
  /\ Edges(p, q) \subseteq PublisherLegalEdges
  /\ q.state = Path(p, q)[Len(Path(p, q))]
  /\ q.state \in PublisherState
  /\ p.state = "Terminated" =>
       q.state = "Terminated" /\ Len(Path(p, q)) = 1

\* C10: the publisher is Initial after construction and, whatever
\* publish(), unpublish(), dispose(), the refresh timer and the responses of
\* the server do, every change of its state is one of Initial->Published,
\* Initial->Unpublished, Initial->Terminated, Published->Unpublished,
\* Published->Terminated, Unpublished->Published and
\* Unpublished->Terminated; a Terminated publisher stays Terminated.
C10_PublisherLegalEdgesOnly ==
  /\ pub.state = "Initial"
  /\ [][C10_Step(pub, pub')]_vars

\* A publisher that was Published, was refreshed, and was then terminated
\* by a failure response, going through Unpublished.
C10_Witness ==
  /\ pub.state = "Terminated"
  /\ pub.op = "response"
  /\ pub.armed >= 1
  /\ Len(pub.requests) = 2
  /\ Edges([state |-> "Published"], pub)
       = {<<"Published", "Unpublished">>, <<"Unpublished", "Terminated">>}

\* The PUBLISH requests sent during the step from p to q, in order.
Sent(p, q) == SubSeq(q.requests, Len(p.requests) + 1, Len(q.requests))

\* The step from p to q is receiveResponse(r) for a request in flight.
Received(p, q, r) ==
  /\ p.inflight > 0
  /\ q = receiveResponse(Answered(Begin(p, "response"), r), r)

\* The Expires a 2xx leaves: the server's when it is a number from 0 to
\* the Expires requested, else the Expires requested.
Clamped(p, r) ==
  IF r.expires \in 0..p.pubRequestExpires THEN r.expires
  ELSE p.pubRequestExpires

C11_Step(p, q, r) ==
  (r.code = "2xx" /\ Clamped(p, r) # 0 /\ Received(p, q, r)) =>
     /\ q.thrown = "none"
     /\ q.state = "Published"
     /\ q.pubRequestEtag = (IF r.etag # 0 THEN r.etag ELSE p.pubRequestEtag)
     /\ q.pubRequestExpires = Clamped(p, r)
     /\ q.publishRefreshTimer \in q.timers \ p.timers

\* C11: on every 2xx to a PUBLISH that leaves a non-zero Expires, whether
\* the publisher was Initial, already Published (a modify or a refresh) or
\* Unpublished, the SIP-ETag is captured, the server's Expires is adopted
\* only when it does not exceed the one requested, a refresh timer is
\* armed, the state is Published afterwards and no error is raised.
C11_AcceptedWhilePublished ==
  [][\A r \in Responses : C11_Step(pub, pub', r)]_vars

C12_Step(p, q, r) ==
  (r.code = "412" /\ Received(p, q, r)) =>
     /\ (p.pubRequestExpires # 0 /\ p.pubRequestEtag # 0) =>
           /\ q.pubRequestEtag = 0
           /\ Len(Sent(p, q)) = 1
           /\ Sent(p, q)[1].etag = 0
           /\ Sent(p, q)[1].body = p.optBody
           /\ Sent(p, q)[1].body # 0
     /\ p.pubRequestExpires = 0 => q.state = "Terminated"

\* C12: on a 412 while the publisher holds an entity-tag and its Expires is
\* non-zero (not a remove) the entity-tag is dropped and one PUBLISH is
\* sent with the last published body and without SIP-If-Match; on a 412
\* while the Expires is 0 (a remove) the publisher ends in Terminated.
C12_PreconditionFailedRecovers ==
  [][\A r \in Responses : C12_Step(pub, pub', r)]_vars

C13_Step(p, q, r) ==
  (/\ r.code = "423"
   /\ r.expires # Absent
   /\ p.pubRequestExpires # 0
   /\ Received(p, q, r)) =>
     IF Gt(r.expires, p.pubRequestExpires)
     THEN /\ Len(Sent(p, q)) = 1
          /\ Sent(p, q)[1].expires = r.expires
          /\ q.pubRequestExpires = r.expires
     ELSE /\ Sent(p, q) = <<>>
          /\ p.state \in {"Initial", "Published"} => q.state = "Terminated"

\* C13: on a 423 with Min-Expires while the publisher's Expires is non-zero,
\* a Min-Expires that is a number greater than the current Expires is
\* adopted and sent in a new PUBLISH; any other Min-Expires is a bad
\* response: nothing is sent and the publisher is terminated, so the
\* Expires sent is never lowered and never NaN.
C13_MinExpiresOnlyRaises ==
  [][\A r \in Responses : C13_Step(pub, pub', r)]_vars

C14_Step(p, q, r) ==
  (r.code = "other" /\ p.state # "Terminated" /\ Received(p, q, r)) =>
     /\ q.state = "Terminated"
     /\ q.thrown = "none"
     /\ <<"Unpublished", "Terminated">> \in Edges(p, q)
     /\ q.publishRefreshTimer = 0
     /\ q.pubRequestEtag = 0
     /\ q.pubRequestBody = 0

\* C14: a final response other than 2xx, 412 and 423 that arrives while the
\* publisher is Initial, Published or Unpublished takes it through
\* Unpublished to Terminated, with the refresh timer cancelled and the
\* entity-tag and the body cleared.
C14_FailureTerminates ==
  [][\A r \in Responses : C14_Step(pub, pub', r)]_vars

C15_Unpublish(p, q) ==
  (q.op = "unpublish" /\ p.state = "Published") =>
     /\ q.publishRefreshTimer = 0
     /\ q.timers = {}
     /\ IF p.pubRequestEtag # 0
        THEN Sent(p, q) = <<[event |-> TRUE, expires |-> 0,
                             etag |-> p.pubRequestEtag, body |-> 0]>>
        ELSE Sent(p, q) = <<>>

C15_Accepted(p, q, r) ==
  (/\ r.code = "2xx"
   /\ p.state = "Published"
   /\ p.pubRequestExpires = 0
   /\ Received(p, q, r)) =>
     /\ q.state = "Unpublished"
     /\ q.pubRequestEtag = 0
     /\ q.pubRequestBody = 0
     /\ q.publishRefreshTimer = 0
     /\ q.timers = {}

\* C15: unpublish() on a Published publisher leaves no refresh timer
\* pending and sends exactly one PUBLISH with Expires 0, the held
\* entity-tag as SIP-If-Match and no body, or nothing when no entity-tag is
\* held; the 2xx to it makes the publisher Unpublished with entity-tag and
\* body cleared and no refresh timer pending.
C15_UnpublishRemoves ==
  [][/\ C15_Unpublish(pub, pub')
     /\ \A r \in Responses : C15_Accepted(pub, pub', r)]_vars

C16_Dispose(p, q) ==
  (q.op = "dispose" /\ ~p.disposed) =>
     /\ q.publishRefreshTimer = 0
     /\ ~q.listed
     /\ Sent(p, q) = <<>> => q.state = "Terminated"

C16_Completed(p, q, r) ==
  (/\ r.code = "2xx"
   /\ p.disposed
   /\ p.state = "Published"
   /\ p.pubRequestExpires = 0
   /\ Received(p, q, r)) => q.state = "Terminated"

\* C16: the first dispose() cancels the refresh timer and removes the
\* publisher from _publishers; when it sends no un-PUBLISH the publisher is
\* Terminated at once, and otherwise it is Terminated when the 2xx to the
\* un-PUBLISH has been handled.
C16_DisposeTerminates ==
  [][/\ C16_Dispose(pub, pub')
     /\ \A r \in Responses : C16_Completed(pub, pub', r)]_vars

C17_Request(p, q, x) ==
  /\ x.event
  /\ x.expires = q.pubRequestExpires
  /\ x.etag = q.pubRequestEtag
  /\ q.op = "refresh" => (x.etag # 0 /\ x.body = 0)

\* C17: every PUBLISH sent carries the Event header, the publisher's
\* current Expires and, exactly when an entity-tag is held, that entity-tag
\* as SIP-If-Match; a PUBLISH sent by the refresh timer always carries
\* SIP-If-Match and never a body.
C17_PublishHeaders ==
  [][\A i \in 1..Len(Sent(pub, pub')) :
        C17_Request(pub, pub', Sent(pub, pub')[i])]_vars

\* The refresh timer of a Published publisher has fired and sent a PUBLISH
\* with SIP-If-Match and without body.
C17_Witness ==
  /\ pub.op = "refresh"
  /\ pub.state = "Published"
  /\ Len(pub.requests) = 2
  /\ pub.requests[2].etag # 0
  /\ pub.requests[2].etag = pub.pubRequestEtag
  /\ pub.requests[2].body = 0
  /\ pub.requests[1].etag = 0
  /\ pub.requests[1].body # 0

C19_Step(p, q) ==
  (q.op = "dispose" /\ p.disposed) =>
     /\ q = [p EXCEPT !.op = "dispose", !.thrown = "none", !.trace = <<>>,
                      !.ret = Ret("resolved", 0, "none")]
     /\ Sent(p, q) = <<>>
     /\ q.state = p.state
     /\ q.listed = p.listed
     /\ q.timers = p.timers
     /\ q.armed = p.armed

\* C19: a dispose() of an already disposed publisher sends nothing, leaves
\* the state, the collection and the timers as they are, and resolves.
C19_SecondDisposeNoOp ==
  [][C19_Step(pub, pub')]_vars

\* A second dispose() of a Published publisher whose first dispose() sent
\* the un-PUBLISH that is still in flight.
C19_Witness ==
  /\ pub.op = "dispose"
  /\ pub.disposed
  /\ pub.trace = <<>>
  /\ pub.ret.kind = "resolved"
  /\ pub.state = "Published"
  /\ pub.inflight = 1
  /\ Len(pub.requests) = 2
  /\ pub.requests[2].expires = 0

C18_Owned(ps, i) ==
  (~ps.made[i].p.disposed /\ ps.made[i].p.state # "Terminated")
     <=> ps._publishers[ps.made[i].id] = i

\* C18: every publisher constructed is stored in _publishers under its id
\* exactly as long as it is neither disposed nor Terminated, also when two
\* publishers were constructed for the same target and event.
C18_InCollectionUntilDisposed ==
  \A i \in 1..Len(publishers.made) : C18_Owned(publishers, i)

\* The keep-alive timers the transport holds are the only ones pending, and
\* none is pending outside Connected.
C20_Timers(t) ==
  /\ t.intervals = {t.keepAliveInterval} \ {0}
  /\ t.debounces = {t.keepAliveDebounceTimeout} \ {0}
  /\ t.state # "Connected" => (t.intervals = {} /\ t.debounces = {})

\* A keep-alive written to the socket.
C20_Emitted(t, u) ==
  (u.op = "keepalive" /\ SendsOf(u) # <<>>) =>
     /\ SendsOf(u) = <<Ev("ws.send", "\r\n\r\n", t.ws, FALSE)>>
     /\ t.state = "Connected"
     /\ t.debounces = {}
     /\ u.debounces # {}

\* A frame received on the current socket.
C20_Received(t, u) ==
  (u.op = "message" /\ u.trace[1].n = t.ws) =>
     IF OnlyCRLF(u.trace[1].a)
     THEN /\ u.debounces = {}
          /\ u.keepAliveDebounceTimeout = 0
          /\ Len(u.trace) = 1
     ELSE (Len(u.trace) = 2) <=> (u.trace[1].a # <<>> /\ t.state = "Connected")

\* C20: a keep-alive (CRLF CRLF) is written only in state Connected and
\* only when no debounce timeout of an earlier keep-alive is pending; a
\* frame of CRLFs only, received on the current socket, clears the pending
\* debounce and is not passed to onMessage; outside Connected neither the
\* keep-alive interval nor a debounce timeout is pending.
C20_KeepAlive ==
  /\ [](C20_Timers(transport))
  /\ [][C20_Emitted(transport, transport')]_vars
  /\ [][C20_Received(transport, transport')]_vars

\* A CRLF frame from the server has cleared the debounce timeout of a
\* keep-alive that was sent, while the interval stays armed.
C20_Witness ==
  /\ transport.op = "message"
  /\ transport.trace = <<Ev("frame", <<"\r\n">>, transport.ws, TRUE)>>
  /\ transport.state = "Connected"
  /\ transport.debounces = {}
  /\ transport.intervals # {}

\* C30: whenever the refresh timer fires the publisher holds an entity-tag
\* and a non-zero Expires, so that refreshRequest() raises neither "Etag
\* undefined" nor "Expires zero"; a refresh timer is pending only while
\* both hold.
C30_RefreshNeverRaises ==
  /\ [](pub.timers # {} =>
          (pub.pubRequestEtag # 0 /\ pub.pubRequestExpires # 0))
  /\ [][pub'.op = "refresh" =>
          /\ pub.pubRequestEtag # 0
          /\ pub.pubRequestExpires # 0
          /\ pub'.thrown = "none"]_vars

\* A connection attempt of transport t fails in the step to u: the close
\* event of the socket of the attempt (handshake failure, or the close the
\* connect timeout asked for), or the continuation queued when the socket
\* could not be constructed.
C29_AttemptFailed(t, u) ==
  /\ t.state = "Connecting"
  /\ \/ u.op = "failtask"
     \/ u.op = "close" /\ t.ws # 0 /\ u.ws = 0

\* connect() called from outside any transition on a Disconnected transport.
C29_ConnectAgain(t, u) ==
  u.op = "connect" /\ t.state = "Disconnected"

\* C29: a failed connection attempt (handshake failure, connect timeout,
\* socket that cannot be constructed) leaves the transport Disconnected with
\* the in-transition flag cleared, and a connect() made afterwards starts a
\* new attempt, moving to Connecting, instead of being rejected with the
\* loop-detected StateTransitionError.
C29_FailedAttemptRecovers ==
  [][/\ C29_AttemptFailed(transport, transport') =>
          /\ transport'.state = "Disconnected"
          /\ ~transport'.transitioningState
     /\ C29_ConnectAgain(transport, transport') =>
          /\ transport'.state = "Connecting"
          /\ transport'.ret.err # "STE"]_vars

\* The handler of the user agent that led to v made the call or callback e.
C27_Made(v, e) == \E i \in 1..Len(v.trace) : v.trace[i].e = e

\* stop() disconnects a connected transport in the step from (u, t) to
\* (v, w): the step is stop() or its continuation after an awaited
\* dispose(), and it calls transport.dispose() while the transport is
\* Connected.
C27_StopDisconnects(u, t, v, w) ==
  /\ v.op \in {"stop", "disposed"}
  /\ t.state = "Connected"
  /\ C27_Made(v, "transport.disconnect")

\* C27: when stop() disconnects a connected transport the delegate's
\* onDisconnect is called, and it is called without an error.
C27_StopNotifiesDelegate ==
  [][C27_StopDisconnects(ua, transport, ua', transport') =>
       \E i \in 1..Len(ua'.trace) :
          ua'.trace[i].e = "delegate.onDisconnect" /\ ~ua'.trace[i].b]_vars

\* The step from (u, t) to (v, w) is the remainder of a stop() that runs
\* after start() has made the user agent Started again.
C28_Remainder(u, t, v, w) ==
  /\ v.op \in {"disposed", "stopped"}
  /\ u.state = "Started"

\* The objects a step called dispose() on all belong to the copies some
\* stop() took when it began.
C28_OnlyCopies(u, v) ==
  \A i \in 1..Len(v.trace) :
     v.trace[i].e = "dispose" =>
        \E r \in 1..Len(u.stops), k \in 1..MaxObjects :
           /\ k <= Len(u.stops[r].snap)
           /\ u.stops[r].snap[k] = Obj(v.trace[i].a, v.trace[i].n)

\* C28: when start() is called after stop() made the user agent Stopped and
\* before that stop() finished, the remainder of the stop() does not
\* disconnect the transport or reset the core the restarted user agent
\* uses, and disposes of no object created after the stop() began.
C28_StopRemainderHarmless ==
  [][C28_Remainder(ua, transport, ua', transport') =>
       /\ ~C27_Made(ua', "transport.disconnect")
       /\ ~C27_Made(ua', "userAgentCore.dispose")
       /\ transport'.state = transport.state
       /\ C28_OnlyCopies(ua, ua')]_vars

\* The qop list of the challenge offers the value.
C21_Offers(challenge, value) ==
  /\ Has(challenge, "qop")
  /\ \E i \in 1..Len(challenge.qop) : challenge.qop[i] = value

\* The challenges that are to be refused: an algorithm other than MD5, no
\* realm, no nonce, or a qop list with neither auth nor auth-int.
C21_Refused(challenge) ==
  \/ ~Falsy(Get(challenge, "algorithm")) /\ Get(challenge, "algorithm") # "MD5"
  \/ Falsy(Get(challenge, "realm"))
  \/ Falsy(Get(challenge, "nonce"))
  \/ /\ Has(challenge, "qop")
     /\ ~C21_Offers(challenge, "auth")
     /\ ~C21_Offers(challenge, "auth-int")

\* The qop an accepted challenge is answered with.
C21_Choice(challenge) ==
  IF C21_Offers(challenge, "auth") THEN "auth"
  ELSE IF C21_Offers(challenge, "auth-int") THEN "auth-int"
  ELSE Undefined

\* C21: authenticate() returns false exactly when the challenge names an
\* algorithm other than MD5, has no realm, has no nonce, or offers a qop
\* list with neither auth nor auth-int; otherwise it returns true with
\* qop auth if offered, else auth-int if offered, else no qop, and with
\* the algorithm MD5.
C21_AuthenticateDecides ==
  [][digest'.op = "authenticate" =>
       /\ digest'.ret \in {"true", "false"}
       /\ digest'.ret = "false" <=> C21_Refused(digest'.challenge)
       /\ digest'.ret = "true" =>
            /\ digest'.qop = C21_Choice(digest'.challenge)
            /\ digest'.algorithm = "MD5"
            /\ digest'.response.defined
            /\ digest'.response.qop = C21_Choice(digest'.challenge)]_vars

\* A challenge offering auth-int and not auth was accepted with auth-int.
C21_Witness ==
  /\ digest.op = "authenticate"
  /\ digest.ret = "true"
  /\ Get(digest.challenge, "algorithm") = ""
  /\ C21_Offers(digest.challenge, "token")
  /\ digest.qop = "auth-int"
  /\ digest.algorithm = "MD5"

\* 0xFFFFFFFF, the last nonce count of eight digits.
C22_Last == <<15, 15, 15, 15, 15, 15, 15, 15>>

\* hex is the count n written with exactly eight hexadecimal digits.
C22_EightDigits(n, hex) ==
  /\ Len(n) <= 8
  /\ Len(hex) = 8
  /\ \A i \in 1..8 :
        hex[i] = IF i <= 8 - Len(n) THEN "0"
                 ELSE HexDigits[n[i - (8 - Len(n))] + 1]

\* C22: every authenticate() that returns true raises the nonce count by
\* exactly 1, the first one to 1 and the one after 0xFFFFFFFF to 1 again
\* (never 0, never nine digits); the count hashed into the response and
\* the nc toString() renders are the count in exactly eight hex digits.
C22_NonceCount ==
  [][/\ (digest'.op = "authenticate" /\ digest'.ret = "true") =>
          /\ digest'.nc = IF digest.nc = C22_Last THEN <<1>>
                          ELSE Succ(digest.nc)
          /\ digest.nc = <<0>> => digest'.nc = <<1>>
          /\ digest'.nc # <<0>>
          /\ C22_EightDigits(digest'.nc, digest'.ncHex)
          /\ ~Falsy(digest'.qop) => digest'.response.nc = digest'.ncHex
     /\ (digest'.op = "toString" /\ digest'.ret = "header"
           /\ ~Falsy(digest.qop)) =>
          /\ digest'.header.nc = digest.ncHex
          /\ C22_EightDigits(digest.nc, digest'.header.nc)]_vars

\* The call that found the count at 0xFFFFFFFF left it at 1, "00000001".
C22_Witness ==
  /\ digest.op = "authenticate"
  /\ digest.ret = "true"
  /\ digest.was = C22_Last
  /\ digest.nc = <<1>>
  /\ digest.qop = "auth"
  /\ digest.response.nc = Zeros(7) \o <<"1">>

\* The send h of the transaction x failed and its reaction has run.
C23_Failed(x, h) ==
  x.sends[h].result # "ok" /\ x.sends[h].status # "pending"

\* A failed send whose onTransportError has not been called yet.
C23_Unreported(x, h) ==
  x.sends[h].result # "ok" /\ x.sends[h].hooks = 0

\* C23: for a send the transport failed, onTransportError is called exactly
\* once, with a TransportError (made from the failure when it was none),
\* and the promise send() returned is rejected with the same object; the
\* call is made at once, no event of the transaction being processed
\* between the failed send and it.
C23_TransportErrorSurfaces ==
  /\ [](\A h \in 1..Len(transaction.sends) :
          /\ transaction.sends[h].hooks <= 1
          /\ transaction.sends[h].result = "ok" =>
               transaction.sends[h].hooks = 0
          /\ C23_Failed(transaction, h) =>
               /\ transaction.sends[h].hooks = 1
               /\ transaction.sends[h].hooked.kind = "TransportError"
               /\ transaction.sends[h].status = "rejected"
               /\ transaction.sends[h].error = transaction.sends[h].hooked)
  /\ [][transaction'.op = "event" =>
          \A h \in 1..Len(transaction.sends) :
             ~C23_Unreported(transaction, h)]_vars

\* The Call-ID begins with the id of the instance.
C24_PrefixIsId(callId, id) ==
  Len(id) <= Len(callId) /\ SubSeq(callId, 1, Len(id)) = id

\* What is to happen to a request received while Started: the first of the
\* four cases that applies.
C24_Expected(a, message) ==
  IF message.missing # {} THEN Ev("drop", "headers", 0, FALSE)
  ELSE IF ~message.toTag /\ C24_PrefixIsId(message.callId, a.options.sipjsId)
  THEN Ev("replyStateless", "", 482, FALSE)
  ELSE IF /\ message.contentLength \notin {Absent, NaN}
          /\ message.contentLength > message.len
  THEN Ev("replyStateless", "", 400, FALSE)
  ELSE Ev("receiveIncomingRequestFromTransport", "", 0, FALSE)

\* The step from a to b handled a request while the user agent was Started.
C24_RequestWhileStarted(u, a, b) ==
  /\ b # a
  /\ b.op = "message"
  /\ u.state = "Started"
  /\ b.trace[1].a.kind = "request"

\* C24: a request received while Started is dropped without a reply when
\* one of From, To, Call-ID, CSeq and Via is missing; else answered
\* statelessly with 482 when it has no to-tag and its Call-ID begins with
\* the id of the instance; else answered statelessly with 400 when the
\* declared Content-Length exceeds the length of the body; else passed to
\* the core, once; nothing else is done with it.
C24_RequestChecksInOrder ==
  [][C24_RequestWhileStarted(ua, inbound, inbound') =>
       inbound'.trace =
         <<inbound'.trace[1], C24_Expected(inbound, inbound'.trace[1].a)>>]_vars

\* The record tr of a handler holds the call or callback e.
C25_Made(tr, e) == \E i \in 1..Len(tr) : tr[i].e = e

\* The handler rejected the INVITE with the status code, as its only final
\* response and after having sent the 100 Trying; it neither called the
\* application nor deferred a call of it, and it did not throw.
C25_RejectedWith(a, b, statusCode) ==
  /\ b.thrown = "none"
  /\ \E j \in 1..Len(b.trace) :
        /\ b.trace[j] = Ev("reject", "", statusCode, FALSE)
        /\ \E i \in 1..(j - 1) : b.trace[i].e = "trying"
        /\ \A k \in 1..Len(b.trace) : b.trace[k].e = "reject" => k = j
  /\ ~C25_Made(b.trace, "delegate.onInvite")
  /\ ~C25_Made(b.trace, "progress")
  /\ ~C25_Made(b.trace, "replacee")
  /\ b.progressing = a.progressing

\* The step from a to b is onInvite for an INVITE with a Replaces header.
C25_InviteWithReplaces(a, b) ==
  /\ b # a
  /\ b.op = "invite"
  /\ b.trace[1].a.replaces.present

\* What the claim asks of such a step: 481 when the header matches no
\* dialog, 486 when it matches a confirmed dialog and has early-only.
C25_Outcome(a, b) ==
  /\ b.trace[1].a.replaces.dialog \notin DOMAIN a.dialogs =>
       C25_RejectedWith(a, b, 481)
  /\ (/\ b.trace[1].a.replaces.dialog \in DOMAIN a.dialogs
      /\ ~a.dialogs[b.trace[1].a.replaces.dialog].early
      /\ b.trace[1].a.replaces.early_only) =>
       C25_RejectedWith(a, b, 486)

\* C25 as stated: an INVITE whose Replaces header matches no dialog is
\* rejected with 481 and one that matches a confirmed dialog with the
\* early-only flag with 486, after a 100 Trying, the onInvite delegate not
\* being called and no session being handed on.
C25_ReplacesRejected ==
  [][C25_InviteWithReplaces(inbound, inbound') =>
       C25_Outcome(inbound, inbound')]_vars

\* C25: when the option sipExtensionReplaces is Supported or Required, an
\* INVITE whose Replaces header matches no dialog is rejected with 481 and
\* one that matches a confirmed dialog with the early-only flag with 486,
\* after a 100 Trying, the onInvite delegate not being called and no
\* session being handed on.
C25_ReplacesRejectedWhenSupported ==
  [][(/\ C25_InviteWithReplaces(inbound, inbound')
      /\ inbound.options.sipExtensionReplaces # "Unsupported") =>
       C25_Outcome(inbound, inbound')]_vars

\* A user agent that supports Replaces and has an onInvite delegate has
\* rejected an INVITE whose Replaces header names no dialog with 481.
C25_Witness ==
  /\ inbound.op = "invite"
  /\ inbound.options.sipExtensionReplaces = "Supported"
  /\ "onInvite" \in inbound.delegate
  /\ inbound.trace[1].a.replaces.present
  /\ inbound.trace[1].a.replaces.dialog = "d3"
  /\ inbound.trace[Len(inbound.trace)] = Ev("reject", "", 481, FALSE)

\* C26: an out-of-dialog NOTIFY is handed to the application or accepted
\* only when allowLegacyNotifications is set; otherwise it is rejected
\* with 481.
C26_NotifyOnlyWhenEnabled ==
  [][(inbound' # inbound /\ inbound'.op = "notify") =>
       IF inbound.options.allowLegacyNotifications
       THEN inbound'.trace[2].e \in {"delegate.onNotify", "accept"}
       ELSE inbound'.trace[2] = Ev("reject", "", 481, FALSE)]_vars

\* The PUBLISH requests that the handler which left p has sent itself.
C31_SentByHandler(p) ==
  Len(SelectSeq(p.trace, LAMBDA e : e.e = "PUBLISH"))

\* unpublish() has just returned while a PUBLISH sent before it still
\* awaits its response, and r accepts that PUBLISH: a 2xx with a SIP-ETag
\* and a non-zero Expires.
C31_AcceptedAfterUnpublish(p, q, r) ==
  /\ p.op = "unpublish"
  /\ p.inflight > C31_SentByHandler(p)
  /\ r.code = "2xx"
  /\ r.etag # 0
  /\ Gt(r.expires, 0)
  /\ Received(p, q, r)

\* A PUBLISH that removes the publication with entity-tag etag.
C31_Removes(x, etag) == x.expires = 0 /\ x.etag = etag

C31_Step(p, q, r) ==
  C31_AcceptedAfterUnpublish(p, q, r) =>
     /\ \E i \in 1..Len(Sent(p, q)) : C31_Removes(Sent(p, q)[i], r.etag)
     /\ ~(q.state = "Unpublished" /\ q.pubRequestEtag = 0)

\* C31: when unpublish() is called while a PUBLISH still awaits its
\* response and that PUBLISH is then accepted with a 2xx carrying a SIP-ETag
\* and a non-zero Expires, the publisher sends a PUBLISH with Expires 0 and
\* that entity-tag, and does not rest in Unpublished without entity-tag.
C31_UnpublishWhilePending ==
  [][\A r \in Responses : C31_Step(pub, pub', r)]_vars

\* What the publisher holds, without the record of what it has sent and of
\* what its last handler did.
C32_Fields(p) ==
  [p EXCEPT !.requests = <<>>, !.trace = <<>>, !.op = "", !.ret = NoRet]

\* The response r to the PUBLISH in flight is answered with another PUBLISH.
C32_Resubmitted(p, q, r) ==
  /\ r.code \in {"412", "423"}
  /\ Received(p, q, r)
  /\ Sent(p, q) # <<>>

\* C32: after a single publish() the resubmission on 412 and 423 ends
\* after a bounded number of PUBLISH requests whatever the server answers:
\* no 412 or 423 is answered with a PUBLISH that leaves the publisher,
\* with that PUBLISH in flight, exactly as it was before the response, so
\* that the same response could be answered in the same way for ever.
C32_ResubmissionTerminates ==
  [][\A r \in Responses :
        C32_Resubmitted(pub, pub', r) => C32_Fields(pub') # C32_Fields(pub)]_vars

\* start() makes a Stopped user agent Started in the step from u to v.
C33_Starts(u, v) == v.op = "start" /\ u.state = "Stopped"

\* The first start() keeps the instances the constructor built; every later
\* one, made after a stop(), builds the next ones.
C33_Step(u, v) ==
  C33_Starts(u, v) =>
     v.instances = (IF u.stops = <<>> THEN u.instances ELSE u.instances + 1)

\* C33: every start() after the first constructs a fresh transport, contact
\* and core, and only the first start() reuses those of the constructor: a
\* Started user agent runs on instances built after every stop() made so
\* far, never on those a stop() has disposed of or is disposing of.
C33_RestartBuildsAnew ==
  /\ [](ua.state = "Started" => ua.instances = Len(ua.stops) + 1)
  /\ [][C33_Step(ua, ua')]_vars

\* The step from u to v is the continuation of a stop() whose awaited
\* dispose() has rejected.
C34_Rejected(u, v) ==
  /\ v.op = "disposed"
  /\ C27_Made(v, "logger.error")

\* stop() run r ends in the step from u to v: its promise rejects and
\* nothing is added to what it has done.
C34_Ends(u, v, r) ==
  /\ u.stops[r].pc = "dispose"
  /\ v.stops[r] = [u.stops[r] EXCEPT !.pc = "failed"]
  /\ \A k \in 1..Len(u.stops) : k # r => v.stops[k] = u.stops[k]

\* What a stop() that failed in a dispose() has done: dispose() of the
\* objects up to the one that rejected, and nothing after it.
C34_Failed(run) ==
  /\ run.idx >= 1
  /\ Len(run.log) = 2 * run.idx - 1
  /\ \A i \in 1..Len(run.log) :
        /\ run.log[i].e \in {"dispose", "disposed"}
        /\ run.log[i].e = "dispose" =>
             Obj(run.log[i].a, run.log[i].n) = run.snap[(i + 1) \div 2]

C34_Step(u, t, v, w) ==
  /\ C34_Rejected(u, v) =>
       /\ Len(v.trace) = 1
       /\ Len(v.stops) = Len(u.stops)
       /\ \E r \in 1..Len(u.stops) : C34_Ends(u, v, r) /\ C34_Failed(v.stops[r])
       /\ v.state = u.state
       /\ w = t
  /\ (v.op = "stop" /\ Len(v.stops) > Len(u.stops)) => v.state = "Stopped"
  /\ \A r \in 1..Len(u.stops) :
        u.stops[r].pc = "failed" => v.stops[r] = u.stops[r]

\* C34: when the dispose() of a registerer, session, subscription or
\* publisher rejects during stop(), stop() rejects and performs none of its
\* remaining steps, then or later: no object later in the order is disposed
\* of, the transport is not disconnected and the core is not reset; the
\* state was made Stopped when stop() began and is not changed back.
C34_DisposeFailureAbortsStop ==
  [][C34_Step(ua, transport, ua', transport')]_vars

\* A stop() of a user agent with two objects has ended with the rejection
\* of the first dispose(): the second object was not disposed of and the
\* transport, connected, was left alone.
C34_Witness ==
  /\ ua.op = "disposed"
  /\ ua.state = "Stopped"
  /\ transport.state = "Connected"
  /\ \E r \in 1..Len(ua.stops) :
        /\ ua.stops[r].pc = "failed"
        /\ ua.stops[r].idx = 1
        /\ Len(ua.stops[r].snap) = 2
        /\ ua.stops[r].log = <<Ev("dispose", ua.stops[r].snap[1].kind,
                                  ua.stops[r].snap[1].id, FALSE)>>

\* The handler that led to v ran, or ended, with the user agent Stopped.
C35_Stopped(v) == v.state = "Stopped"

\* The user agent is not told about its transport and does not connect it.
C35_Inert(v) ==
  /\ ~C27_Made(v, "delegate.onConnect")
  /\ ~C27_Made(v, "delegate.onDisconnect")
  /\ ~C27_Made(v, "transport.connect")
  /\ v.op = "reconnect()" => v.ret.kind = "rejected"
  /\ v.op = "timer" => \A c \in 1..Len(v.chains) : v.chains[c].pc # "calling"

\* A message received while Stopped: a request is not handed to the core, a
\* response that passes the checks is.
C35_Message(a, b) ==
  (b # a /\ b.op = "message") =>
     /\ ~C27_Made(b, "receiveIncomingRequestFromTransport")
     /\ b.trace[1].a.kind = "request" => b.trace[2] = Ev("drop", "stopped", 0, FALSE)

\* C35: while the user agent is Stopped, no delegate onConnect or
\* onDisconnect callback is made, reconnect() rejects, no reconnection
\* attempt, whether made by a timer or by reconnect(), reaches
\* transport.connect(), and no inbound request is handed to the user-agent
\* core.
C35_InertWhileStopped ==
  [][/\ C35_Stopped(ua') => C35_Inert(ua')
     /\ C35_Stopped(ua) => C35_Message(inbound, inbound')]_vars

\* C36: at most one refresh timer of the publisher is pending, the one
\* publishRefreshTimer holds, and one is pending only while the publisher
\* is Published, for every interleaving of publish() calls and responses.
C36_OneRefreshTimer ==
  /\ Cardinality(pub.timers) <= 1
  /\ pub.timers = {pub.publishRefreshTimer} \ {0}
  /\ pub.timers # {} => pub.state = "Published"

\* C37: a publisher that is Terminated sends no PUBLISH, arms no refresh
\* timer and raises no error, whatever is called on it and whatever
\* response arrives late.
C37_TerminatedIsInert ==
  [][pub.state = "Terminated" =>
       /\ Sent(pub, pub') = <<>>
       /\ pub'.timers \subseteq pub.timers
       /\ pub'.thrown = "none"]_vars

\* The step from t to u is an event of a socket.
C38_Event(u) == u.op \in {"open", "close", "message", "error"}

\* The socket whose event the step from t to u is: an open or close event
\* changes its readyState, a message or error event is recorded with it.
C38_Socket(t, u) ==
  IF u.op \in {"message", "error"} THEN u.trace[1].n
  ELSE CHOOSE s \in 1..Len(u.sockets) : u.sockets[s] # t.sockets[s]

\* Nothing but the socket's own readyState is touched by the event: the
\* state, the current socket, the promises, the handles and the timers are
\* as before, and no callback is made.
C38_Ignored(t, u) ==
  /\ Core(u) = [Core(t) EXCEPT !.sockets = u.sockets]
  /\ u.keepAliveInterval = t.keepAliveInterval
  /\ u.keepAliveDebounceTimeout = t.keepAliveDebounceTimeout
  /\ u.intervals = t.intervals
  /\ u.debounces = t.debounces
  /\ Len(u.trace) = (IF u.op \in {"message", "error"} THEN 1 ELSE 0)
  /\ u.thrown = "none"

C38_Step(t, u) ==
  C38_Event(u) =>
     /\ C38_Socket(t, u) # t.ws => C38_Ignored(t, u)
     /\ (u.op = "message" /\ t.state # "Connected") => ~Called(u, "onMessage")

\* C38: an open, close, error or message event of a socket that is not the
\* transport's current socket changes neither the state nor any promise,
\* handle or timer of the transport and delivers no message; a message of
\* the current socket is discarded while the state is not Connected.
C38_StaleSocketIgnored ==
  [][C38_Step(transport, transport')]_vars

\* connect() has pre-empted a disconnect(), and the close event of the
\* socket that was closing has arrived while the new one is connecting.
C38_Witness ==
  /\ transport.op = "close"
  /\ transport.trace = <<>>
  /\ transport.state = "Connecting"
  /\ Len(transport.sockets) = 2
  /\ transport.sockets[1] = "closed"
  /\ transport.ws = 2
  /\ transport.connectPromise # 0

\* The final responses the handler that led to b has sent itself.
C39_Finals(b) ==
  Len(SelectSeq(b.trace, LAMBDA e : e.e \in {"accept", "reject"}))

\* The handler has passed the request to a callback of the application's
\* delegate, or will do so when invitation.progress() has resolved.
C39_Delegated(a, b) ==
  \/ \E i \in 1..Len(b.trace) :
        b.trace[i].e \in {"delegate.onInvite", "delegate.onMessage",
                          "delegate.onNotify", "delegate.onRegisterRequest",
                          "delegate.onSubscribeRequest"}
  \/ b.progressing > a.progressing

\* The step from a to b is the core handing over an out-of-dialog request.
C39_HandedOver(a, b) ==
  /\ b # a
  /\ b.op \in {"invite", "notify", "MESSAGE", "REFER", "REGISTER", "SUBSCRIBE"}

\* C39: every out-of-dialog INVITE, MESSAGE, NOTIFY, REFER, REGISTER and
\* SUBSCRIBE that the core hands to the user agent is passed to a callback
\* of the delegate or answered by the user agent with exactly one final
\* response, under every configuration; none is answered twice.
C39_RequestAnsweredOrDelegated ==
  [][C39_HandedOver(inbound, inbound') =>
       /\ C39_Finals(inbound') <= 1
       /\ C39_Delegated(inbound, inbound') \/ C39_Finals(inbound') = 1]_vars

\* The credentials of a DigestAuthentication: what a response is computed
\* from and what toString() renders.
C40_Credentials(d) ==
  [nc |-> d.nc, ncHex |-> d.ncHex, cnonce |-> d.cnonce,
   response |-> d.response, algorithm |-> d.algorithm, realm |-> d.realm,
   nonce |-> d.nonce, opaque |-> d.opaque, qop |-> d.qop]

\* What toString() gives: the header, or the throw.
C40_Rendered(d) == [ret |-> toString(d).ret, header |-> toString(d).header]

\* C40: an authenticate() that returns false leaves the nonce count, the
\* cnonce, the response, the algorithm, the realm, the nonce, the opaque
\* and the qop as they were, so that toString() gives the same header
\* after it as before it, or throws as before.
C40_FailedAuthenticateChangesNothing ==
  [][(digest'.op = "authenticate" /\ digest'.ret = "false") =>
       /\ C40_Credentials(digest') = C40_Credentials(digest)
       /\ C40_Rendered(digest') = C40_Rendered(digest)]_vars

====
